---- MODULE Spec2Model ----
(***************************************************************************)
(* The candidate-generation pipeline of                                    *)
(* candidate_generation/create_entities_candidates.py and the companion    *)
(* reader of src/spel/multinerd.py.                                        *)
(*                                                                         *)
(* A Python str is a sequence of tokens (a token is a character or an      *)
(* atomic word), so that split, strip, replace and the f-string layout of  *)
(* the export are computed on the text and not assumed.                    *)
(***************************************************************************)
EXTENDS Naturals, Integers, Sequences, FiniteSets, Bags, TLC

VARIABLES
    pc,              \* position in main(): "entities", "mine", "count", "attach",
                     \* "export", or "IndexError" once that exception left main()
    entities,        \* dict: entity key -> entity record
    all_candidates,  \* dict: candidate key -> candidate record
    key_order,       \* iteration (insertion) order of the keys of all_candidates
    mined,           \* the candidate map as extract_candidates returned it
    scanned,         \* the page records the dump scan has processed, in order
    doc_splits,      \* result of split_tsv_file: one list of entity keys per document
    out_files,       \* out_files[i+1] = lines of the file named str(i)
    written,         \* the file names export_data has opened, in order
    rows,            \* the rows of the corpus TSV extract_entities has read, in order
    corpus,          \* the lines of the link corpus extract_candidates has read, in order
    loader,          \* the locals of MULTINERDDataset.load_dataset
    redirects_job,   \* the locals of CreateRedirects._run
    conll_job        \* the locals of CreateAIDACONLL._run and of
                     \* CreateIntegerizedCONLLTrainingData._run

\* the variables of the companion programs
others == <<loader, redirects_job, conll_job>>

vars == <<pc, entities, all_candidates, key_order, mined, scanned, doc_splits, out_files,
          written, rows, corpus, loader, redirects_job, conll_job>>

----------------------------------------------------------------------------
(* Bounds of the model *)

MaxPages == 2        \* page records scanned in one run
MaxLinks == 2        \* [[...]] markers in the page records of one run
MaxCands == 22       \* candidates of the generated dump of SpecExport
MaxRows == 2         \* rows of the corpus TSV read by extract_entities
MaxCorpusLines == 3  \* lines of the link corpus read by extract_candidates

----------------------------------------------------------------------------
(* Python values *)

\* None: a value that equals no text
None == <<"<None>">>

\* truth value of a str-or-None: None and '' are false
Truthy(x) == x # None /\ x # <<>>

Range(s) == {s[i] : i \in 1..Len(s)}

Min(a, b) == IF a < b THEN a ELSE b

\* str.replace(old, new) for one-token old and new
Replace(s, old, new) == [i \in 1..Len(s) |-> IF s[i] = old THEN new ELSE s[i]]

\* str.lower(), token by token
LowerTok(t) ==
    CASE t = "Amsterdam" -> "amsterdam"
      [] t = "Rotterdam" -> "rotterdam"
      [] t = "Utrecht"   -> "utrecht"
      [] t = "Mokum"     -> "mokum"
      [] t = "New"       -> "new"
      [] t = "York"      -> "york"
      [] t = "De"        -> "de"
      [] t = "Pagina"    -> "pagina"
      [] t = "inCount"   -> "incount"
      [] t = "outCount"  -> "outcount"
      [] t = "normalName" -> "normalname"
      [] t = "freebaseId" -> "freebaseid"
      [] OTHER           -> t

Lower(s) == [i \in 1..Len(s) |-> LowerTok(s[i])]

\* index of the first occurrence of token t in s, 0 when absent
RECURSIVE FindFrom(_, _, _)
FindFrom(s, t, i) ==
    IF i > Len(s) THEN 0
    ELSE IF s[i] = t THEN i
    ELSE FindFrom(s, t, i + 1)

Find(s, t) == FindFrom(s, t, 1)

\* s.split(t)[0]
BeforeFirst(s, t) == LET i == Find(s, t) IN IF i = 0 THEN s ELSE SubSeq(s, 1, i - 1)

\* s.partition(t): the text before the first t and the text after it
Partition(s, t) ==
    LET i == Find(s, t) IN
    IF i = 0 THEN <<s, <<>>>> ELSE <<SubSeq(s, 1, i - 1), SubSeq(s, i + 1, Len(s))>>

\* s.split(t)
RECURSIVE Split(_, _)
Split(s, t) ==
    LET i == Find(s, t) IN
    IF i = 0 THEN <<s>>
    ELSE <<SubSeq(s, 1, i - 1)>> \o Split(SubSeq(s, i + 1, Len(s)), t)

RECURSIVE LStrip(_, _)
LStrip(s, chars) ==
    IF s # <<>> /\ Head(s) \in chars THEN LStrip(Tail(s), chars) ELSE s

RECURSIVE RStrip(_, _)
RStrip(s, chars) ==
    IF s # <<>> /\ s[Len(s)] \in chars THEN RStrip(SubSeq(s, 1, Len(s) - 1), chars) ELSE s

\* s.strip(chars)
Strip(s, chars) == RStrip(LStrip(s, chars), chars)

\* the characters s.strip() removes
Whitespace == {" ", "\t", "\n"}

\* str.replace(old, '') for a one-token old
Remove(s, old) == SelectSeq(s, LAMBDA t : t # old)

----------------------------------------------------------------------------
(* extract_entities: the entity table of the annotated corpus *)

\* the exception a subscript beyond the end of a list raises
IndexError == "IndexError"

\* NormalizeName without the final lower()
NormalizeNameNoLower(name) == BeforeFirst(Remove(name, " "), "(")

\* row[2].replace(' ', '').split('(')[0].lower()
NormalizeName(name) == Lower(BeforeFirst(Remove(name, " "), "("))

\* row[1].split('-')[0] == "B"
IsBeginTag(tag) == BeforeFirst(tag, "-") = <<"B">>

\* lines 44-57: the record of a row; Python's row[k] is row[k + 1] here
EntityOfRow(row) ==
    [name |-> row[3], link |-> row[5], wname |-> row[4], fid |-> row[7],
     wid |-> row[6], candidates |-> <<>>]

\* the table with the record of the row stored under key
WithEntity(table, key, row) ==
    [k \in DOMAIN table \cup {key} |-> IF k = key THEN EntityOfRow(row) ELSE table[k]]

\* ExtractEntitiesRow where a later row of a known key replaces the record
ExtractEntitiesRowLastWins(table, row) ==
    IF Len(row) > 4 /\ IsBeginTag(row[2])
    THEN IF Len(row) < 7 THEN [raised |-> TRUE, table |-> table]
         ELSE [raised |-> FALSE, table |-> WithEntity(table, NormalizeName(row[3]), row)]
    ELSE [raised |-> FALSE, table |-> table]

\* one iteration of "for row in reader": the table after the row, and whether the
\* body raised IndexError (row[6] is the first subscript it evaluates that a row
\* of 5 or 6 fields lacks)
ExtractEntitiesRow(table, row) ==
    IF Len(row) > 4 /\ IsBeginTag(row[2])
    THEN LET entity_dictname == NormalizeName(row[3]) IN
         IF entity_dictname \notin DOMAIN table
         THEN IF Len(row) < 7 THEN [raised |-> TRUE, table |-> table]
              ELSE [raised |-> FALSE, table |-> WithEntity(table, entity_dictname, row)]
         ELSE [raised |-> FALSE, table |-> table]
    ELSE [raised |-> FALSE, table |-> table]

\* extract_entities on a whole file: the table built, and whether a row raised
RECURSIVE ExtractEntitiesFrom(_, _)
ExtractEntitiesFrom(table, file) ==
    IF file = <<>> THEN [raised |-> FALSE, table |-> table]
    ELSE LET step == ExtractEntitiesRow(table, Head(file)) IN
         IF step.raised THEN step ELSE ExtractEntitiesFrom(step.table, Tail(file))

----------------------------------------------------------------------------
(* split_tsv_file: the entity keys of each document of the corpus TSV *)

DocStart == "-DOCSTART-"

\* "-DOCSTART-" in row: some field of the row is exactly the marker
IsDocStartRow(row) == \E i \in 1..Len(row) : row[i] = <<DocStart>>

\* the locals of split_tsv_file before the first row
SplitStart == [docs |-> <<>>, doc_ents |-> <<>>, first_doc |-> TRUE]

\* SplitTsvRow that takes every begin row with a mention field
SplitTsvRowLooseGuard(st, row) ==
    IF IsDocStartRow(row)
    THEN IF st.first_doc
         THEN [st EXCEPT !.first_doc = FALSE]
         ELSE [st EXCEPT !.docs = Append(@, st.doc_ents), !.doc_ents = <<>>]
    ELSE IF Len(row) > 2 /\ IsBeginTag(row[2])
         THEN [st EXCEPT !.doc_ents = Append(@, NormalizeName(row[3]))]
         ELSE st

\* one iteration of "for row in reader" (lines 18-28)
SplitTsvRow(st, row) ==
    IF IsDocStartRow(row)
    THEN IF st.first_doc
         THEN [st EXCEPT !.first_doc = FALSE]
         ELSE [st EXCEPT !.docs = Append(@, st.doc_ents), !.doc_ents = <<>>]
    ELSE IF Len(row) > 0 /\ Len(row) > 4 /\ IsBeginTag(row[2])
         THEN [st EXCEPT !.doc_ents = Append(@, NormalizeName(row[3]))]
         ELSE st

RECURSIVE SplitTsvRows(_, _)
SplitTsvRows(st, file) ==
    IF file = <<>> THEN st ELSE SplitTsvRows(SplitTsvRow(st, Head(file)), Tail(file))

\* split_tsv_file(file_path): the rows of the file, then lines 29-32
split_tsv_file(file) ==
    LET st == SplitTsvRows(SplitStart, file) IN
    IF st.doc_ents # <<>> THEN Append(st.docs, st.doc_ents) ELSE st.docs

----------------------------------------------------------------------------
(* extract_candidates: the candidate miner *)

\* key.lower().replace(' ', '')
MinerKey(key) == Remove(Lower(key), " ")

\* entity_names = {key.lower().replace(' ', '') for key in entities.keys()}
EntityNames(ents) == {MinerKey(key) : key \in DOMAIN ents}

----------------------------------------------------------------------------
(* extract_candidates.add_candidate: the record of a newly mined candidate *)

WikiUrlPrefix == "https://nl.wikipedia.org/wiki/"

NewCandidate(candidate, refs) ==
    [id              |-> None,
     inCount         |-> 0,
     outCount        |-> 0,
     links           |-> {},
     url             |-> <<WikiUrlPrefix>> \o Replace(candidate, " ", "_"),
     name            |-> Replace(candidate, " ", "_"),
     normalName      |-> Lower(candidate),
     normalWikiTitle |-> Replace(Lower(candidate), " ", "_"),
     references      |-> refs]

\* AddCandidate where re-discovery stores a fresh record for the candidate
AddCandidateOverwrite(cands, entity_key, candidate) ==
    [k \in DOMAIN cands \cup {candidate} |->
        IF k = candidate THEN NewCandidate(candidate, {entity_key}) ELSE cands[k]]

\* add_candidate(entity_key, candidate, all_candidates)
AddCandidate(cands, entity_key, candidate) ==
    IF candidate \notin DOMAIN cands
    THEN [k \in DOMAIN cands \cup {candidate} |->
             IF k = candidate THEN NewCandidate(candidate, {entity_key}) ELSE cands[k]]
    ELSE [cands EXCEPT ![candidate].references = @ \cup {entity_key}]

\* re.search(r"\[\[([^]]*)\]\]", line): group(1) of the leftmost match, the text
\* between the first "[[" and the first "]]" after it; None without a match
MarkerText(line) ==
    LET open == Find(line, "[[") IN
    IF open = 0 THEN None
    ELSE LET close == Find(SubSeq(line, open + 1, Len(line)), "]]") IN
         IF close = 0 THEN None ELSE SubSeq(line, open + 1, open + close - 1)

\* name_match.group(1).split("|")[0].strip()
MarkerName(group) == Strip(Split(group, "|")[1], Whitespace)

\* whether the body of the try raises IndexError: the only subscript that can
\* lie beyond its list is split("|")[1], evaluated when "|" is in the text
TryRaises(group) == "|" \in Range(group) /\ Len(Split(group, "|")) < 2

\* group(1).split("|")[1].split("(")[0].strip() if "|" in group(1) else None
MarkerAlias1(group) ==
    IF "|" \in Range(group)
    THEN Strip(BeforeFirst(Split(group, "|")[2], "("), Whitespace)
    ELSE None

\* group(1).split("|")[0].split("(")[0].strip()
MarkerAlias2(group) == Strip(BeforeFirst(Split(group, "|")[1], "("), Whitespace)

\* "for alias in [...]" up to the break: the entity key of the first alias that
\* is not empty and is an entity name; None when no alias is one
RECURSIVE FirstMatch(_, _)
FirstMatch(aliases, entity_names) ==
    IF aliases = <<>> THEN None
    ELSE IF Truthy(Head(aliases)) /\ MinerKey(Head(aliases)) \in entity_names
         THEN MinerKey(Head(aliases))
         ELSE FirstMatch(Tail(aliases), entity_names)

\* the loop over the aliases without its break
RECURSIVE AddEveryMatch(_, _, _, _)
AddEveryMatch(cands, aliases, candidate, entity_names) ==
    IF aliases = <<>> THEN cands
    ELSE AddEveryMatch(
             IF Truthy(Head(aliases)) /\ MinerKey(Head(aliases)) \in entity_names
             THEN AddCandidate(cands, MinerKey(Head(aliases)), candidate) ELSE cands,
             Tail(aliases), candidate, entity_names)

\* TryAliases without the break: every matching alias adds its entity
TryAliasesNoBreak(cands, group, entity_names) ==
    AddEveryMatch(cands, <<MarkerName(group), MarkerAlias1(group), MarkerAlias2(group)>>,
                  MarkerName(group), entity_names)

\* TryAliases with the candidate keyed by the entity key instead of the target
TryAliasesEntityKey(cands, group, entity_names) ==
    LET entity == FirstMatch(<<MarkerName(group), MarkerAlias1(group), MarkerAlias2(group)>>,
                             entity_names)
    IN  IF entity = None THEN cands ELSE AddCandidate(cands, entity, entity)

\* lines 98-108: the aliases in the order name, alias_1, alias_2
TryAliases(cands, group, entity_names) ==
    LET entity == FirstMatch(<<MarkerName(group), MarkerAlias1(group), MarkerAlias2(group)>>,
                             entity_names)
    IN  IF entity = None THEN cands ELSE AddCandidate(cands, entity, MarkerName(group))

\* lines 111-117, the handler of IndexError: line.split("[[")[1].split("]]")[0]
\* as the candidate, and nothing when that raises IndexError again
SingleBracket(cands, line, entity_names) ==
    IF Len(Split(line, "[[")) < 2 THEN cands
    ELSE LET name == Strip(BeforeFirst(Split(line, "[[")[2], "]]"), Whitespace) IN
         IF MinerKey(name) \in entity_names
         THEN AddCandidate(cands, MinerKey(name), name)
         ELSE cands

\* ExtractCandidatesLine with every marker that has no "|" sent to the handler
ExtractCandidatesLineSimplified(cands, line, entity_names) ==
    LET stripped == Strip(line, Whitespace)
        group == MarkerText(stripped)
    IN  IF group = None THEN cands
        ELSE IF "|" \notin Range(group) THEN SingleBracket(cands, stripped, entity_names)
        ELSE TryAliases(cands, group, entity_names)

\* one iteration of "for line in data" (lines 88-117)
ExtractCandidatesLine(cands, line, entity_names) ==
    LET stripped == Strip(line, Whitespace)
        group == MarkerText(stripped)
    IN  IF group = None THEN cands
        ELSE IF TryRaises(group) THEN SingleBracket(cands, stripped, entity_names)
        ELSE TryAliases(cands, group, entity_names)

----------------------------------------------------------------------------
(* extract_candidates_counts: one page record of a dump shard *)

ExcludedNamespaces == {"Categorie", "Gebruiker", "Bestand"}

\* re.search(r'^(Categorie|Gebruiker|Bestand):', link)
IsExcluded(link) ==
    Len(link) >= 2 /\ link[1] \in ExcludedNamespaces /\ link[2] = ":"

\* [link for link in links if not re.search(...)]
RECURSIVE FilterLinks(_)
FilterLinks(links) ==
    IF links = <<>> THEN <<>>
    ELSE IF IsExcluded(Head(links)) THEN FilterLinks(Tail(links))
    ELSE <<Head(links)>> \o FilterLinks(Tail(links))

\* link.split('|')[0]
LinkTarget(link) == BeforeFirst(link, "|")

\* CountLink with the in-link credited to the linking page instead of the target
CountLinkWrongCounter(cands, title, link) ==
    LET target == LinkTarget(link) IN
    IF target \in DOMAIN cands
    THEN [cands EXCEPT ![title].inCount = @ + 1,
                       ![title].outCount = @ + 1,
                       ![title].links = @ \cup {target}]
    ELSE cands

\* CountLink counting a target once per page, however often it is linked
CountLinkDistinct(cands, title, link) ==
    LET target == LinkTarget(link) IN
    IF target \in DOMAIN cands /\ target \notin cands[title].links
    THEN [cands EXCEPT ![target].inCount = @ + 1,
                       ![title].outCount = @ + 1,
                       ![title].links = @ \cup {target}]
    ELSE cands

\* CountLink that forgets to record the target in the page's links
CountLinkNoLinks(cands, title, link) ==
    LET target == LinkTarget(link) IN
    IF target \in DOMAIN cands
    THEN [cands EXCEPT ![target].inCount = @ + 1,
                       ![title].outCount = @ + 1]
    ELSE cands

\* CountLink counting only links to candidates whose page was already scanned
CountLinkResolvedOnly(cands, title, link) ==
    LET target == LinkTarget(link) IN
    IF target \in DOMAIN cands /\ Truthy(cands[target].id)
    THEN [cands EXCEPT ![target].inCount = @ + 1,
                       ![title].outCount = @ + 1,
                       ![title].links = @ \cup {target}]
    ELSE cands

\* CountLink crediting the linking page once per distinct target only
CountLinkOutOncePerTarget(cands, title, link) ==
    LET target == LinkTarget(link) IN
    IF target \in DOMAIN cands
    THEN [cands EXCEPT ![target].inCount = @ + 1,
                       ![title].outCount =
                           IF target \in cands[title].links THEN @ ELSE @ + 1,
                       ![title].links = @ \cup {target}]
    ELSE cands

\* the body of "for link in links" (lines 151-156)
CountLink(cands, title, link) ==
    LET target == LinkTarget(link) IN
    IF target \in DOMAIN cands
    THEN [cands EXCEPT ![target].inCount = @ + 1,
                       ![title].outCount = @ + 1,
                       ![title].links = @ \cup {target}]
    ELSE cands

\* "for link in links" (line 151)
RECURSIVE CountLinks(_, _, _)
CountLinks(cands, title, links) ==
    IF links = <<>> THEN cands
    ELSE CountLinks(CountLink(cands, title, Head(links)), title, Tail(links))

\* the id of a page given to the candidates the page links to
RECURSIVE TagTargets(_, _, _)
TagTargets(cands, id, links) ==
    IF links = <<>> THEN cands
    ELSE TagTargets(
             IF LinkTarget(Head(links)) \in DOMAIN cands
             THEN [cands EXCEPT ![LinkTarget(Head(links))].id = id] ELSE cands,
             id, Tail(links))

\* ScanPageRecord with the page id also stored on the targets of its links
ScanPageRecordTagsTargets(cands, page) ==
    IF Truthy(page.title) /\ page.title \in DOMAIN cands
    THEN LET withId == IF Truthy(page.id)
                       THEN TagTargets([cands EXCEPT ![page.title].id = page.id],
                                       page.id, FilterLinks(page.links))
                       ELSE cands
         IN  CountLinks(withId, page.title, FilterLinks(page.links))
    ELSE cands

\* the body of "for page in pages" (lines 138-156); page.title and page.id are
\* the regex matches or None, page.links the re.findall result
ScanPageRecord(cands, page) ==
    IF Truthy(page.title) /\ page.title \in DOMAIN cands
    THEN LET withId == IF Truthy(page.id)
                       THEN [cands EXCEPT ![page.title].id = page.id]
                       ELSE cands
         IN  CountLinks(withId, page.title, FilterLinks(page.links))
    ELSE cands

\* extract_candidates_counts over the page records of all shards, in the order given
RECURSIVE ScanAll(_, _)
ScanAll(cands, pages) ==
    IF pages = <<>> THEN cands
    ELSE ScanAll(ScanPageRecord(cands, Head(pages)), Tail(pages))

----------------------------------------------------------------------------
(* replace_links *)

Restrict(f, S) == [x \in S |-> f[x]]

\* "for link in list(...['links'])" (lines 169-175): todo is the snapshot still
\* to visit, links the live set; cands is the map as it is at this moment
RECURSIVE ResolveLinks(_, _, _)
ResolveLinks(todo, links, cands) ==
    IF todo = {} THEN links
    ELSE LET link == CHOOSE l \in todo : TRUE
             live == IF link \in DOMAIN cands
                     THEN (links \ {link}) \cup {cands[link].id}
                     ELSE links \ {link}
         IN  ResolveLinks(todo \ {link}, live, cands)

\* ResolveCandidate that keeps the candidates without an id
ResolveCandidateKeep(cands, candidate) ==
    [cands EXCEPT ![candidate].links =
        ResolveLinks(cands[candidate].links, cands[candidate].links, cands)]

\* ResolveCandidate storing the page id as the display name of a survivor
ResolveCandidateRenames(cands, candidate) ==
    IF ~Truthy(cands[candidate].id)
    THEN Restrict(cands, DOMAIN cands \ {candidate})
    ELSE [cands EXCEPT ![candidate].links =
              ResolveLinks(cands[candidate].links, cands[candidate].links, cands),
                       ![candidate].name = cands[candidate].id]

\* one iteration of "for candidate in list(all_candidates.keys())"
ResolveCandidate(cands, candidate) ==
    IF ~Truthy(cands[candidate].id)
    THEN Restrict(cands, DOMAIN cands \ {candidate})
    ELSE [cands EXCEPT ![candidate].links =
              ResolveLinks(cands[candidate].links, cands[candidate].links, cands)]

\* replace_links(all_candidates), visiting the keys in the order keys
RECURSIVE ReplaceLinksFrom(_, _)
ReplaceLinksFrom(cands, keys) ==
    IF keys = <<>> THEN cands
    ELSE ReplaceLinksFrom(ResolveCandidate(cands, Head(keys)), Tail(keys))

----------------------------------------------------------------------------
(* add_candidates_to_entities *)

\* AttachCandidate without the look at the references
AttachCandidateToAll(ents, cands, candidate) ==
    [e \in DOMAIN ents |-> [ents[e] EXCEPT !.candidates = Append(@, candidate)]]

\* "for ref in all_candidates[candidate]['references']" (lines 180-182): the
\* candidate is appended to every referencing entity that exists
AttachCandidate(ents, cands, candidate) ==
    [e \in DOMAIN ents |->
        IF e \in cands[candidate].references
        THEN [ents[e] EXCEPT !.candidates = Append(@, candidate)]
        ELSE ents[e]]

\* "for candidate in all_candidates" (line 179), in dict order
RECURSIVE AttachAll(_, _, _)
AttachAll(ents, cands, keys) ==
    IF keys = <<>> THEN ents
    ELSE AttachAll(AttachCandidate(ents, cands, Head(keys)), cands, Tail(keys))

----------------------------------------------------------------------------
(* export_data: ranking *)

TopK == 20

\* candidate['popularity'] (line 212)
Popularity(c) == c.inCount + c.outCount

\* InsertByPopularity placing c before the elements of equal popularity
RECURSIVE InsertByPopularityUnstable(_, _, _)
InsertByPopularityUnstable(sorted, c, cands) ==
    IF sorted = <<>> THEN <<c>>
    ELSE IF Popularity(cands[Head(sorted)]) > Popularity(cands[c])
    THEN <<Head(sorted)>> \o InsertByPopularityUnstable(Tail(sorted), c, cands)
    ELSE <<c>> \o sorted

\* place of c in a list already sorted by popularity descending: behind every
\* element that is at least as popular (sorted() is stable, also with reverse=True)
RECURSIVE InsertByPopularity(_, _, _)
InsertByPopularity(sorted, c, cands) ==
    IF sorted = <<>> THEN <<c>>
    ELSE IF Popularity(cands[Head(sorted)]) >= Popularity(cands[c])
    THEN <<Head(sorted)>> \o InsertByPopularity(Tail(sorted), c, cands)
    ELSE <<c>> \o sorted

\* sorted(candidates, key=lambda c: c['popularity'], reverse=True)
RECURSIVE SortedByPopularity(_, _)
SortedByPopularity(list, cands) ==
    IF list = <<>> THEN <<>>
    ELSE InsertByPopularity(SortedByPopularity(SubSeq(list, 1, Len(list) - 1), cands),
                            list[Len(list)], cands)

\* TopCandidates without the [:20] slice
TopCandidatesAll(list, cands) == SortedByPopularity(list, cands)

\* sorted(...)[:20]
TopCandidates(list, cands) ==
    SubSeq(SortedByPopularity(list, cands), 1, Min(TopK, Len(list)))

----------------------------------------------------------------------------
(* export_data: the f-string layout *)

TAB == "\t"

Digits == <<"0", "1", "2", "3", "4", "5", "6", "7", "8", "9">>

\* str(n) for an int n >= 0
RECURSIVE IntToText(_)
IntToText(n) ==
    IF n < 10 THEN <<Digits[n + 1]>>
    ELSE IntToText(n \div 10) \o <<Digits[(n % 10) + 1]>>

\* str(x) inside an f-string, for a str or None
StrOf(x) == IF x = None THEN <<"None">> ELSE x

\* repr(x) of a set member: a quoted str, or None
ReprOf(x) == IF x = None THEN <<"None">> ELSE <<"'">> \o x \o <<"'">>

Reverse(s) == [i \in 1..Len(s) |-> s[Len(s) + 1 - i]]

\* the members of a set in the order Python iterates it: the language fixes no
\* order, rev selects one of two opposite orders
SetAsSeq(S) == CHOOSE s \in [1..Cardinality(S) -> S] : Range(s) = S

IterationOrder(S, rev) == IF rev THEN Reverse(SetAsSeq(S)) ELSE SetAsSeq(S)

RECURSIVE JoinRepr(_)
JoinRepr(members) ==
    IF members = <<>> THEN <<>>
    ELSE IF Len(members) = 1 THEN ReprOf(members[1])
    ELSE ReprOf(members[1]) \o <<",", " ">> \o JoinRepr(Tail(members))

\* str(a_set): 'set()' for the empty set, else '{' members ', '-joined '}'
SetToText(S, rev) ==
    IF S = {} THEN <<"set", "(", ")">>
    ELSE <<"{">> \o JoinRepr(IterationOrder(S, rev)) \o <<"}">>

\* line 208-209
EntityLine(ent) ==
    <<"ENTITY">>
    \o <<TAB, "text", ":">> \o ent.name
    \o <<TAB, "url", ":">> \o ent.link
    \o <<TAB, "wname", ":">> \o ent.wname
    \o <<TAB, "id", ":">> \o ent.wid
    \o <<TAB, "freebaseId", ":">> \o ent.fid

\* line 221-222
CandidateLine(c, rev) ==
    <<"CANDIDATE">>
    \o <<TAB, "id", ":">> \o StrOf(c.id)
    \o <<TAB, "name", ":">> \o c.name
    \o <<TAB, "inCount", ":">> \o IntToText(c.inCount)
    \o <<TAB, "outCount", ":">> \o IntToText(c.outCount)
    \o <<TAB, "links", ":">> \o SetToText(c.links, rev)
    \o <<TAB, "url", ":">> \o c.url
    \o <<TAB, "normalName", ":">> \o c.normalName
    \o <<TAB, "normalwikititle", ":">> \o c.normalWikiTitle

RECURSIVE CandidateLines(_, _, _)
CandidateLines(keys, cands, rev) ==
    IF keys = <<>> THEN <<>>
    ELSE <<CandidateLine(cands[Head(keys)], rev)>> \o CandidateLines(Tail(keys), cands, rev)

\* EntityBlock that writes nothing for an entity without candidates
EntityBlockSkipEmpty(ent, cands, rev) ==
    IF ent.candidates = <<>> THEN <<>>
    ELSE <<EntityLine(ent)>>
         \o CandidateLines(TopCandidates(ent.candidates, cands), cands, rev)

\* the lines written for one "for ent in split" iteration (lines 207-223)
EntityBlock(ent, cands, rev) ==
    <<EntityLine(ent)>> \o CandidateLines(TopCandidates(ent.candidates, cands), cands, rev)

\* the content of the file of one split
RECURSIVE ExportLines(_, _, _, _)
ExportLines(split, ents, cands, rev) ==
    IF split = <<>> THEN <<>>
    ELSE EntityBlock(ents[Head(split)], cands, rev)
         \o ExportLines(Tail(split), ents, cands, rev)

----------------------------------------------------------------------------
(* The companion reader, src/spel/multinerd.py *)

DigitValue(t) == CHOOSE d \in 0..9 : Digits[d + 1] = t

\* int(value) for a text of decimal digits
RECURSIVE TextToInt(_)
TextToInt(s) ==
    IF Len(s) = 1 THEN DigitValue(s[1])
    ELSE 10 * TextToInt(SubSeq(s, 1, Len(s) - 1)) + DigitValue(s[Len(s)])

\* [v.strip(" '") for v in value.split(',') if v.strip()]
RECURSIVE StripMembers(_)
StripMembers(parts) ==
    IF parts = <<>> THEN <<>>
    ELSE IF Strip(Head(parts), Whitespace) = <<>> THEN StripMembers(Tail(parts))
    ELSE <<Strip(Head(parts), {" ", "'"})>> \o StripMembers(Tail(parts))

\* the 'links' branch of Candidate.__init__ (lines 125-127)
ParseLinks(value) ==
    LET inner == Strip(value, {"{", "}", " "}) IN
    IF inner = <<>> THEN <<>> ELSE StripMembers(Split(inner, ","))

\* the fields of a Candidate before the line is read (lines 103-110)
EmptyCandidate ==
    [id |-> <<>>, in_count |-> 0, out_count |-> 0, links |-> <<>>, url |-> <<>>,
     name |-> <<>>, normal_name |-> <<>>, normal_wiki_title |-> <<>>]

\* one iteration of "for item in candidate_line.split('\t')" (lines 112-137)
CandidateItem(self, item) ==
    IF item = <<"CANDIDATE">> \/ Strip(item, Whitespace) = <<>> THEN self
    ELSE LET parts == Partition(item, ":")
             key   == Lower(Strip(parts[1], Whitespace))
             value == Strip(parts[2], Whitespace)
         IN  CASE key = <<"id">>              -> [self EXCEPT !.id = value]
               [] key = <<"incount">>         -> [self EXCEPT !.in_count = TextToInt(value)]
               [] key = <<"outcount">>        -> [self EXCEPT !.out_count = TextToInt(value)]
               [] key = <<"links">>           -> [self EXCEPT !.links = ParseLinks(value)]
               [] key = <<"url">>             -> [self EXCEPT !.url = value]
               [] key = <<"name">>            -> [self EXCEPT !.name = value]
               [] key = <<"normalname">>      -> [self EXCEPT !.normal_name = value]
               [] key = <<"normalwikititle">> -> [self EXCEPT !.normal_wiki_title = RStrip(value, {")"})]
               [] OTHER                       -> self

RECURSIVE CandidateItems(_, _)
CandidateItems(self, items) ==
    IF items = <<>> THEN self
    ELSE CandidateItems(CandidateItem(self, Head(items)), Tail(items))

\* Candidate(candidate_line)
Candidate(candidate_line) == CandidateItems(EmptyCandidate, Split(candidate_line, TAB))

\* one iteration of "for item in entity_header.split('\t')" (lines 152-170)
CandidateRecordItem(self, item) ==
    IF item = <<"ENTITY">> THEN self
    ELSE LET parts == Partition(item, ":")
             key   == Lower(Strip(parts[1], Whitespace))
             value == Strip(parts[2], Whitespace)
         IN  CASE key = <<"text">>       -> [self EXCEPT !.text = value]
               [] key = <<"url">>        -> [self EXCEPT !.url = value]
               [] key = <<"wname">>      -> [self EXCEPT !.wname = value]
               [] key = <<"id">>         -> [self EXCEPT !.id = value]
               [] key = <<"freebaseid">> -> [self EXCEPT !.freebase_id = value]
               [] OTHER                  -> self

RECURSIVE CandidateRecordItems(_, _)
CandidateRecordItems(self, items) ==
    IF items = <<>> THEN self
    ELSE CandidateRecordItems(CandidateRecordItem(self, Head(items)), Tail(items))

\* CandidateRecord(entity_header), without the fields derived from wname
CandidateRecord(entity_header) ==
    CandidateRecordItems(
        [candidates |-> <<>>, text |-> <<>>, url |-> <<>>, wname |-> <<>>,
         id |-> <<>>, freebase_id |-> <<>>],
        Split(entity_header, TAB))

\* the loop of get_candidates over the lines of one file (lines 185-196); a
\* CANDIDATE line before any ENTITY line fails the assert and any other line
\* raises: the exporter writes neither, and such a line is passed over here
RECURSIVE GetCandidatesFrom(_, _)
GetCandidatesFrom(lines, candidates) ==
    IF lines = <<>> THEN candidates
    ELSE LET c_line == Head(lines) IN
         IF Strip(c_line, Whitespace) = <<>>
         THEN GetCandidatesFrom(Tail(lines), candidates)
         ELSE IF Head(c_line) = "ENTITY"
         THEN GetCandidatesFrom(Tail(lines), Append(candidates, CandidateRecord(c_line)))
         ELSE IF Head(c_line) = "CANDIDATE" /\ candidates # <<>>
         THEN GetCandidatesFrom(Tail(lines),
                  [candidates EXCEPT ![Len(candidates)].candidates =
                       Append(@, Candidate(c_line))])
         ELSE GetCandidatesFrom(Tail(lines), candidates)

get_candidates(file) == GetCandidatesFrom(file, <<>>)

----------------------------------------------------------------------------
(* MULTINERDDataset.load_dataset and Document.add_annotation *)

TRAIN_START_LINE == <<"-SPLITSTART-", " ", "train">>
TESTA_START_LINE == <<"-SPLITSTART-", " ", "testa">>
TESTB_START_LINE == <<"-SPLITSTART-", " ", "testb">>

\* the text line of a row of the TSV: its fields with a tab between them
RECURSIVE JoinFields(_)
JoinFields(row) ==
    IF row = <<>> THEN <<>>
    ELSE IF Len(row) = 1 THEN row[1]
    ELSE row[1] \o <<TAB>> \o JoinFields(Tail(row))

\* s starts with the tokens of old
StartsWith(s, old) == Len(s) >= Len(old) /\ SubSeq(s, 1, Len(old)) = old

\* str.replace(old, new) for an old of one or more tokens
RECURSIVE ReplaceSeq(_, _, _)
ReplaceSeq(s, old, new) ==
    IF s = <<>> THEN <<>>
    ELSE IF StartsWith(s, old)
    THEN new \o ReplaceSeq(SubSeq(s, Len(old) + 1, Len(s)), old, new)
    ELSE <<Head(s)>> \o ReplaceSeq(Tail(s), old, new)

\* the fields of AnnotationRecord(line) that add_annotation reads (lines 24-38);
\* candidates is the position of the attached record in the candidate list, 0
\* for None
AnnotationRecord(line) ==
    LET data_columns == Split(line, TAB) IN
    [token |-> data_columns[1],
     begin_inside_tag |-> IF Len(data_columns) > 1 THEN data_columns[2] ELSE None,
     full_mention |->
         IF Len(data_columns) > 2
         THEN ReplaceSeq(ReplaceSeq(data_columns[3], <<" ", "-", " ">>, <<"-">>),
                         <<" ", "e", " ">>, <<"e", " ">>)
         ELSE None,
     candidates |-> 0]

\* lines 76-80
normalize_mention_text(s) ==
    IF ~Truthy(s) THEN <<>> ELSE Lower(Strip(Replace(s, "_", " "), Whitespace))

\* lines 172-173: the fields CandidateRecord.__init__ derives from wname
WithWordCount(record) ==
    [orig_text |-> record.wname,
     non_considered_word_count |-> Len(Split(record.wname, "_"))]

\* the candidate list of a document: get_candidates with the derived fields
DocumentCandidates(file) ==
    LET records == get_candidates(file) IN
    [i \in 1..Len(records) |-> WithWordCount(records[i])]

\* FirstUsable that also takes a record whose words are all considered
RECURSIVE FirstUsableNoGuard(_, _, _)
FirstUsableNoGuard(ar, candidates, i) ==
    IF i > Len(candidates) THEN 0
    ELSE IF ar.full_mention # None
            /\ normalize_mention_text(candidates[i].orig_text)
                   = normalize_mention_text(ar.full_mention)
    THEN i
    ELSE FirstUsableNoGuard(ar, candidates, i + 1)

\* "for c in candidates" (lines 86-93): the position of the record the loop
\* breaks at, 0 when it runs to the end
RECURSIVE FirstUsable(_, _, _)
FirstUsable(ar, candidates, i) ==
    IF i > Len(candidates) THEN 0
    ELSE IF ar.full_mention # None
    THEN IF candidates[i].non_considered_word_count < 1
         THEN FirstUsable(ar, candidates, i + 1)
         ELSE IF normalize_mention_text(candidates[i].orig_text)
                     = normalize_mention_text(ar.full_mention)
         THEN i
         ELSE FirstUsable(ar, candidates, i + 1)
    ELSE FirstUsable(ar, candidates, i + 1)

\* Document(document_id)
Document(document_id) ==
    [document_id |-> document_id, annotations |-> <<>>, current_annotation |-> <<>>]

\* Document.flush_current_annotation
flush_current_annotation(self) ==
    [self EXCEPT !.annotations = Append(@, self.current_annotation),
                 !.current_annotation = <<>>]

\* AnnotationRecord.set_candidates on record c of the list (lines 48-50)
set_candidates(candidates, c) ==
    [candidates EXCEPT ![c].non_considered_word_count = @ - 1]

\* Document.add_annotation(line, candidates): the document and the list after it
add_annotation(self, line, candidates) ==
    IF Strip(line, Whitespace) = <<>> \/ Len(Split(line, TAB)) < 3
    THEN [document |-> flush_current_annotation(self), candidates |-> candidates]
    ELSE LET ar == AnnotationRecord(line)
             c  == FirstUsable(ar, candidates, 1)
         IN  IF c = 0
             THEN [document |-> [self EXCEPT !.current_annotation = Append(@, ar)],
                   candidates |-> candidates]
             ELSE [document |->
                       [self EXCEPT !.current_annotation =
                            Append(@, [ar EXCEPT !.candidates = c])],
                   candidates |-> set_candidates(candidates, c)]

\* str(last_document_id) in "multinerd_candidates/" + str(last_document_id): the
\* name inside the directory
MemberName(last_document_id) == IntToText(last_document_id)

\* the locals of load_dataset before the first line (lines 208-212);
\* current_document is the list of the one current document, empty for None;
\* read counts the lines consumed, opened lists the member names asked of the zip
\* file, raised names the exception that ended the loop
LoaderStart ==
    [annotations |-> << <<>>, <<>>, <<>> >>,
     current_document |-> <<>>,
     current_document_candidates |-> None,
     data_split_id |-> -1,
     last_document_id |-> 0,
     opened |-> <<>>,
     read |-> 0,
     raised |-> ""]

\* annotations[data_split_id].append(document): a list of three, indexed as
\* Python does
AppendToSplit(st, document) ==
    LET id == st.data_split_id IN
    IF id >= 3 \/ id < -3 THEN [st EXCEPT !.raised = IndexError]
    ELSE [st EXCEPT !.annotations[IF id < 0 THEN id + 4 ELSE id + 1] = Append(@, document)]

\* lines 222-226: a "-DOCSTART-" line, with the members zip_names of the zip
\* file and their contents zip_files
StartDocument(st, zip_names, zip_files) ==
    LET stored == IF st.current_document # <<>>
                  THEN AppendToSplit(st, st.current_document[1])
                  ELSE st
        id     == IF st.current_document # <<>>
                  THEN st.last_document_id + 1
                  ELSE st.last_document_id
        name   == MemberName(id)
        opened == [stored EXCEPT !.last_document_id = id,
                                 !.current_document = <<Document(id)>>,
                                 !.opened = Append(@, name)]
    IN  IF stored.raised # "" THEN stored
        ELSE IF name \notin Range(zip_names) THEN [opened EXCEPT !.raised = "KeyError"]
        ELSE [opened EXCEPT !.current_document_candidates =
                 DocumentCandidates(
                     zip_files[CHOOSE i \in 1..Len(zip_names) : zip_names[i] = name])]

\* one iteration of "for ind, line in enumerate(data_file)" (lines 215-228)
LoadLine(st, raw, zip_names, zip_files) ==
    LET line == Strip(raw, Whitespace)
        at   == [st EXCEPT !.read = @ + 1]
    IN  IF line \in {TRAIN_START_LINE, TESTA_START_LINE, TESTB_START_LINE}
        THEN [at EXCEPT !.data_split_id = @ + 1]
        ELSE IF StartsWith(line, <<DocStart>>)
        THEN StartDocument(at, zip_names, zip_files)
        ELSE IF at.current_document = <<>>
        THEN [at EXCEPT !.raised = "AttributeError"]
        ELSE LET added == add_annotation(at.current_document[1], line,
                                         at.current_document_candidates)
             IN  [at EXCEPT !.current_document = <<added.document>>,
                            !.current_document_candidates = added.candidates]

\* lines 229-230, after the last line
FinishLoading(st) ==
    IF st.current_document # <<>> THEN AppendToSplit(st, st.current_document[1]) ELSE st

----------------------------------------------------------------------------
(* Inputs *)

Amsterdam == <<"Amsterdam">>
Rotterdam == <<"Rotterdam">>

\* the entity table extract_entities returns for a corpus with two gold entities
EntityTable ==
    (<<"amsterdam">> :> [name |-> <<"Amsterdam">>,
                         link |-> <<"http://nl.wikipedia.org/wiki/Amsterdam">>,
                         wname |-> <<"Amsterdam">>, fid |-> <<"/m/0k3p">>,
                         wid |-> <<"5042">>, candidates |-> <<>>])
    @@
    (<<"rotterdam">> :> [name |-> <<"Rotterdam">>,
                         link |-> <<"http://nl.wikipedia.org/wiki/Rotterdam">>,
                         wname |-> <<"Rotterdam">>, fid |-> <<"/m/06hdk">>,
                         wid |-> <<"17">>, candidates |-> <<>>])

\* the document splits split_tsv_file returns for that corpus: one document
\* mentioning both entities
DocSplits ==
    << <<(<<"amsterdam">>), (<<"rotterdam">>)>> >>

Titles == {Amsterdam, Rotterdam}

\* candidate keys the miner may have found, in discovery order: both titles in
\* either order, or Amsterdam alone (Rotterdam is then a page that is no
\* candidate)
KeyOrders == {<<Amsterdam, Rotterdam>>, <<Rotterdam, Amsterdam>>, <<Amsterdam>>}

\* references of a mined candidate: the entity key its own name matched
MinedReferences(candidate) == {Lower(candidate)}

\* the page records a dump shard may hold: pages with a title, with or without
\* an id, and chunks that have neither (title and id are both None)

PageIds == {<<"5042">>, <<"17">>, None}

LinkTexts ==
    {<<"Rotterdam">>, <<"Amsterdam", "|", "hoofdstad">>, <<"Categorie", ":", "Rotterdam">>}

LinkLists == UNION {[1..n -> LinkTexts] : n \in 0..MaxLinks}

Pages ==
    [title : Titles, id : PageIds, links : LinkLists]
        \cup [title : {None}, id : {None}, links : LinkLists]

----------------------------------------------------------------------------
(* main(), from the return of extract_candidates on *)

Init ==
    /\ pc = "count"
    /\ entities = EntityTable
    /\ \E order \in KeyOrders :
          /\ key_order = order
          /\ all_candidates =
                [k \in Range(order) |-> NewCandidate(k, MinedReferences(k))]
    /\ mined = all_candidates
    /\ scanned = <<>>
    /\ doc_splits = DocSplits
    /\ out_files = <<>>
    /\ written = <<>>
    /\ rows = <<>>
    /\ corpus = <<>>
    /\ loader = <<>>
    /\ redirects_job = <<>>
    /\ conll_job = <<>>

RECURSIVE TotalLinks(_)
TotalLinks(pages) ==
    IF pages = <<>> THEN 0 ELSE Len(Head(pages).links) + TotalLinks(Tail(pages))

\* one page record of extract_candidates_counts
ScanPage ==
    /\ pc = "count"
    /\ Len(scanned) < MaxPages
    /\ \E page \in Pages :
          /\ TotalLinks(scanned) + Len(page.links) <= MaxLinks
          /\ all_candidates' = ScanPageRecord(all_candidates, page)
          /\ scanned' = Append(scanned, page)
    /\ UNCHANGED <<pc, entities, key_order, mined, doc_splits, out_files, written, rows, corpus, others>>

\* replace_links, once every shard of the directory is scanned
ReplaceLinks ==
    /\ pc = "count"
    /\ all_candidates' = ReplaceLinksFrom(all_candidates, key_order)
    /\ key_order' = SelectSeq(key_order, LAMBDA k : k \in DOMAIN all_candidates')
    /\ pc' = "attach"
    /\ UNCHANGED <<entities, mined, scanned, doc_splits, out_files, written, rows, corpus, others>>

AddCandidatesToEntities ==
    /\ pc = "attach"
    /\ entities' = AttachAll(entities, all_candidates, key_order)
    /\ pc' = "export"
    /\ UNCHANGED <<all_candidates, key_order, mined, scanned, doc_splits, out_files,
                   written, rows, corpus, others>>

\* os.path.join(output_directory, str(split_nr)): the name inside the directory
FileName(split_nr) == IntToText(split_nr)

\* export_data for the next split of "for split_nr, split in enumerate(doc_splits)"
ExportData ==
    /\ pc = "export"
    /\ Len(out_files) < Len(doc_splits)
    /\ \E rev \in BOOLEAN :
          out_files' = Append(out_files,
              ExportLines(doc_splits[Len(out_files) + 1], entities, all_candidates, rev))
    /\ written' = Append(written, FileName(Len(out_files)))
    /\ UNCHANGED <<pc, entities, all_candidates, key_order, mined, scanned, doc_splits,
                   rows, corpus, others>>

Next == ScanPage \/ ReplaceLinks \/ AddCandidatesToEntities \/ ExportData

Spec == Init /\ [][Next]_vars

----------------------------------------------------------------------------
(* The exporter on the result of a generated dump with up to MaxCands candidates *)

GeneratedTitle(i) == <<"Pagina", " ">> \o IntToText(i)

GeneratedId(i) == IntToText(100 + i)

\* page i carries (i * step) % modulus links, to the candidates that follow it
GeneratedPage(i, n, step, modulus, shift) ==
    [title |-> GeneratedTitle(i),
     id    |-> GeneratedId(i),
     links |-> [j \in 1..((i * step) % modulus) |->
                   IF j % 2 = 0
                   THEN GeneratedTitle(((i + shift + j - 2) % n) + 1) \o <<"|", "x">>
                   ELSE GeneratedTitle(((i + shift + j - 2) % n) + 1)]]

\* one page per candidate, except that candidate number missing has none
RECURSIVE GeneratedDump(_, _, _, _, _, _)
GeneratedDump(i, n, step, modulus, shift, missing) ==
    IF i > n THEN <<>>
    ELSE (IF i = missing THEN <<>> ELSE <<GeneratedPage(i, n, step, modulus, shift)>>)
         \o GeneratedDump(i + 1, n, step, modulus, shift, missing)

GeneratedReferences(i) ==
    IF i % 2 = 0 THEN {<<"amsterdam">>, <<"rotterdam">>} ELSE {<<"amsterdam">>}

\* document splits of the exporter: the corpus of DocSplits, and one of two
\* documents of which the first mentions no entity
ExportSplits ==
    {DocSplits, << <<>>, <<(<<"rotterdam">>), (<<"amsterdam">>)>> >>}

InitExport ==
    /\ pc = "attach"
    /\ entities = EntityTable
    /\ \E n \in 0..MaxCands, step \in 1..2, modulus \in 1..(MaxLinks + 1),
          shift \in 0..1, missing \in 0..2 :
          LET keys == [i \in 1..n |-> GeneratedTitle(i)]
              dump == GeneratedDump(1, n, step, modulus, shift, missing)
          IN  /\ mined = [k \in Range(keys) |->
                             NewCandidate(k, GeneratedReferences(
                                 CHOOSE i \in 1..n : keys[i] = k))]
              /\ scanned = dump
              /\ \E counted \in {ScanAll(mined, dump)} :
                    all_candidates = ReplaceLinksFrom(counted, keys)
              /\ key_order = SelectSeq(keys, LAMBDA k : k \in DOMAIN all_candidates)
    /\ doc_splits \in ExportSplits
    /\ out_files = <<>>
    /\ written = <<>>
    /\ rows = <<>>
    /\ corpus = <<>>
    /\ loader = <<>>
    /\ redirects_job = <<>>
    /\ conll_job = <<>>

NextExport == AddCandidatesToEntities \/ ExportData

SpecExport == InitExport /\ [][NextExport]_vars

----------------------------------------------------------------------------
(* extract_entities on the rows of a corpus TSV *)

Tags == {<<"B", "-", "LOC">>, <<"I", "-", "LOC">>}

RawNames ==
    {<<"Amsterdam">>, <<"New", " ", "York">>, <<"Amsterdam", " ", "(", "stad", ")">>}

WikiIds == {<<"5042">>, <<"99">>}

RowLengths == {4, 5, 6, 7}

\* token, tag, mention, wiki name, wiki url, wiki id, freebase id
FullRow(tag, name, wid) ==
    <<(<<"tok">>), tag, name, Replace(name, " ", "_"),
      <<"http://nl.wikipedia.org/wiki/">> \o Replace(name, " ", "_"), wid, <<"/m/0k3p">>>>

\* the rows csv.reader may yield: complete rows and rows cut short
Rows ==
    {SubSeq(FullRow(tag, name, wid), 1, n) :
        tag \in Tags, name \in RawNames, wid \in WikiIds, n \in RowLengths}

InitTable ==
    /\ pc = "entities"
    /\ entities = <<>>
    /\ all_candidates = <<>>
    /\ key_order = <<>>
    /\ mined = <<>>
    /\ scanned = <<>>
    /\ doc_splits = <<>>
    /\ out_files = <<>>
    /\ written = <<>>
    /\ rows = <<>>
    /\ corpus = <<>>
    /\ loader = <<>>
    /\ redirects_job = <<>>
    /\ conll_job = <<>>

\* one row of "for row in reader" in extract_entities, for a file of at most
\* bound rows out of RowSet
ReadRowFrom(RowSet, bound) ==
    /\ pc = "entities"
    /\ Len(rows) < bound
    /\ \E row \in RowSet :
          /\ rows' = Append(rows, row)
          /\ LET step == ExtractEntitiesRow(entities, row) IN
                 /\ entities' = step.table
                 /\ pc' = IF step.raised THEN IndexError ELSE pc
    /\ UNCHANGED <<all_candidates, key_order, mined, scanned, doc_splits, out_files,
                   written, corpus, others>>

ReadRow == ReadRowFrom(Rows, MaxRows)

\* the reader is exhausted: extract_entities returns the table to main()
ReturnEntities ==
    /\ pc = "entities"
    /\ pc' = "mine"
    /\ UNCHANGED <<entities, all_candidates, key_order, mined, scanned, doc_splits,
                   out_files, written, rows, corpus, others>>

NextTable == ReadRow \/ ReturnEntities

SpecTable == InitTable /\ [][NextTable]_vars

----------------------------------------------------------------------------
(* The corpus TSV through extract_entities, split_tsv_file and export_data, and
   then through load_dataset, which reads the same file and the exported files *)

MaxFileRows == 5

\* the rows of a corpus file: split and document markers, the two tokens of a
\* mention of New York, a row cut after the wiki name and a row cut after the url
CorpusRows ==
    {<<TRAIN_START_LINE>>, <<TESTA_START_LINE>>, <<(<<DocStart>>)>>,
     FullRow(<<"B", "-", "LOC">>, <<"New", " ", "York">>, <<"99">>),
     FullRow(<<"I", "-", "LOC">>, <<"New", " ", "York">>, <<"99">>),
     SubSeq(FullRow(<<"B", "-", "LOC">>, <<"Amsterdam">>, <<"5042">>), 1, 4),
     SubSeq(FullRow(<<"B", "-", "LOC">>, <<"Amsterdam">>, <<"5042">>), 1, 5)}

ReadCorpusRow == ReadRowFrom(CorpusRows, MaxFileRows)

\* doc_splits = split_tsv_file(entity_path) (line 250) in a run of main() whose
\* link corpus and dump are empty: the passes of lines 236-247 find no candidate
SplitTsvFile ==
    /\ pc = "mine"
    /\ doc_splits' = split_tsv_file(rows)
    /\ pc' = "export"
    /\ UNCHANGED <<entities, all_candidates, key_order, mined, scanned, out_files,
                   written, rows, corpus, others>>

\* load_dataset opens the zip of the exported directory and the corpus file
OpenDataset ==
    /\ pc = "export"
    /\ Len(out_files) = Len(doc_splits)
    /\ loader' = LoaderStart
    /\ pc' = "load"
    /\ UNCHANGED <<entities, all_candidates, key_order, mined, scanned, doc_splits,
                   out_files, written, rows, corpus, redirects_job, conll_job>>

\* the next line of the corpus file in load_dataset
LoadNextLine ==
    /\ pc = "load"
    /\ loader.read < Len(rows)
    /\ \E st \in {LoadLine(loader, JoinFields(rows[loader.read + 1]), written, out_files)} :
          /\ loader' = st
          /\ pc' = IF st.raised # "" THEN st.raised ELSE pc
    /\ UNCHANGED <<entities, all_candidates, key_order, mined, scanned, doc_splits,
                   out_files, written, rows, corpus, redirects_job, conll_job>>

\* the file is exhausted: the last document is stored and self.dataset is set
CloseDataset ==
    /\ pc = "load"
    /\ loader.read = Len(rows)
    /\ \E st \in {FinishLoading(loader)} :
          /\ loader' = st
          /\ pc' = IF st.raised # "" THEN st.raised ELSE "loaded"
    /\ UNCHANGED <<entities, all_candidates, key_order, mined, scanned, doc_splits,
                   out_files, written, rows, corpus, redirects_job, conll_job>>

NextCorpus ==
    \/ ReadCorpusRow
    \/ ReturnEntities
    \/ SplitTsvFile
    \/ ExportData
    \/ OpenDataset
    \/ LoadNextLine
    \/ CloseDataset

SpecCorpus == InitTable /\ [][NextCorpus]_vars

----------------------------------------------------------------------------
(* extract_candidates on the lines of a link corpus *)

\* the lines readlines() may yield, each with its line end
CorpusLines ==
    {<<"The", " ", "city", " ", "[[", "Amsterdam", "|", "capital", "]]", " ", "is", " ",
       "busy", "\n">>,
     <<"[[", "Rotterdam", "]]", "\n">>,
     <<"[[", "Amsterdam", " ", "(", "stad", ")", "]]", "\n">>,
     <<"[[", "Mokum", "|", "Amsterdam", "]]", "\n">>,
     <<"[[", "Rotterdam", "|", "Amsterdam", "]]", "\n">>,
     <<"[[", "Utrecht", "]]", " ", "en", " ", "[[", "Amsterdam", "]]", "\n">>,
     <<"geen", " ", "link", "\n">>,
     <<"[[", "Amsterdam", "\n">>,
     <<" ", "[[", " ", "Amsterdam", " ", "]]", "\n">>,
     <<"[[", "Mokum", "|", "Rotterdam", " ", "(", "stad", ")", "]]", "\n">>}

InitMine ==
    /\ pc = "mine"
    /\ entities = EntityTable
    /\ all_candidates = <<>>
    /\ key_order = <<>>
    /\ mined = <<>>
    /\ scanned = <<>>
    /\ doc_splits = <<>>
    /\ out_files = <<>>
    /\ written = <<>>
    /\ rows = <<>>
    /\ corpus = <<>>
    /\ loader = <<>>
    /\ redirects_job = <<>>
    /\ conll_job = <<>>

\* one line of "for line in data" in extract_candidates
MineLine ==
    /\ pc = "mine"
    /\ Len(corpus) < MaxCorpusLines
    /\ \E line \in CorpusLines :
          /\ corpus' = Append(corpus, line)
          /\ all_candidates' =
                ExtractCandidatesLine(all_candidates, line, EntityNames(entities))
          /\ key_order' =
                key_order \o SetAsSeq(DOMAIN all_candidates' \ DOMAIN all_candidates)
    /\ UNCHANGED <<pc, entities, mined, scanned, doc_splits, out_files, written, rows, others>>

\* the corpus is exhausted: extract_candidates returns the map to main()
ReturnCandidates ==
    /\ pc = "mine"
    /\ mined' = all_candidates
    /\ pc' = "count"
    /\ UNCHANGED <<entities, all_candidates, key_order, scanned, doc_splits, out_files,
                   written, rows, corpus, others>>

NextMine == MineLine \/ ReturnCandidates

SpecMine == InitMine /\ [][NextMine]_vars

----------------------------------------------------------------------------
(* Vocabulary of the properties *)

Resolved == pc \in {"attach", "export"}

\* the positions <<i, j>> of the extracted links: link j of scanned page i
LinkPositions ==
    UNION {{<<i, j>> : j \in 1..Len(scanned[i].links)} : i \in 1..Len(scanned)}

LinkAt(ij) == scanned[ij[1]].links[ij[2]]

\* link ij is a non-excluded link whose target is c
Targets(ij, c) == ~IsExcluded(LinkAt(ij)) /\ LinkTarget(LinkAt(ij)) = c

\* page i is the page of a candidate: its title is a key of the mined map
IsCandidatePage(i) == Truthy(scanned[i].title) /\ scanned[i].title \in DOMAIN mined

\* occurrences on one page of non-excluded links whose target is c
Occurrences(page, c) ==
    Cardinality({j \in 1..Len(page.links) :
        ~IsExcluded(page.links[j]) /\ LinkTarget(page.links[j]) = c})

RECURSIVE SumOver(_, _)
SumOver(f, S) ==
    IF S = {} THEN 0
    ELSE LET x == CHOOSE y \in S : TRUE IN f[x] + SumOver(f, S \ {x})

Injections(n) == {f \in [1..n -> 1..n] : \A i, j \in 1..n : i # j => f[i] # f[j]}

Permuted(s, f) == [i \in 1..Len(s) |-> s[f[i]]]

----------------------------------------------------------------------------
(* C1: after replace_links every member of a surviving candidate's links is
   the id of a surviving candidate: no raw title, no None, no id of a removed
   candidate, whatever the iteration order of the candidate map. *)
C1_NoDanglingLinks ==
    Resolved =>
        \A k \in DOMAIN all_candidates :
            \A l \in all_candidates[k].links :
                /\ l # None
                /\ \E k2 \in DOMAIN all_candidates : all_candidates[k2].id = l

----------------------------------------------------------------------------
(* Exported files as the reader sees them *)

\* P(ent, rec) for every entity occurrence written so far: ent is the entity
\* record it was written for, rec what get_candidates reads back for it (the
\* reader returns one record per ENTITY line, in file order)
ForAllBlocks(P(_, _)) ==
    \A f \in 1..Len(out_files) :
        \A read \in {get_candidates(out_files[f])} :
            /\ Len(read) = Len(doc_splits[f])
            /\ \A b \in 1..Len(read) : P(entities[doc_splits[f][b]], read[b])

ExistsBlock(P(_, _)) ==
    \E f \in 1..Len(out_files) :
        \E read \in {get_candidates(out_files[f])} :
            \E b \in 1..Min(Len(read), Len(doc_splits[f])) :
                P(entities[doc_splits[f][b]], read[b])

\* the attached candidates (keys) of ent that carry the name read from a line
AttachedNamed(ent, name) ==
    {k \in Range(ent.candidates) : all_candidates[k].name = name}

ReadPopularity(c) == c.in_count + c.out_count

RoundTripOfBlock(ent, rec) ==
    \A j \in 1..Len(rec.candidates) :
        \E k \in AttachedNamed(ent, rec.candidates[j].name) :
            /\ rec.candidates[j].id = all_candidates[k].id
            /\ rec.candidates[j].in_count = all_candidates[k].inCount
            /\ rec.candidates[j].out_count = all_candidates[k].outCount
            /\ Range(rec.candidates[j].links) = all_candidates[k].links

(* C2: every exported CANDIDATE line, read back by the companion reader,
   yields the id, in_count, out_count and the set of links the candidate
   held before export, for every links set including the empty one. *)
C2_RoundTrip == ForAllBlocks(RoundTripOfBlock)

----------------------------------------------------------------------------
(* C3, as amended: a candidate's in_count is the number of occurrences of
   non-excluded links whose target is that candidate on the scanned page
   records whose own title is a candidate key; every occurrence counts, and
   links on page records that are not candidate pages are not counted. *)
C3_InCountOfCandidatePages ==
    \A c \in DOMAIN all_candidates :
        all_candidates[c].inCount =
            Cardinality({ij \in LinkPositions : IsCandidatePage(ij[1]) /\ Targets(ij, c)})

\* C3 as claimed: the observations on all page records of all shards count
C3_InCountOfAllPages ==
    \A c \in DOMAIN all_candidates :
        all_candidates[c].inCount =
            Cardinality({ij \in LinkPositions : Targets(ij, c)})

\* a counted candidate that is also the target of a link on a page that is no candidate
C3_Witness ==
    \E c \in DOMAIN all_candidates :
        /\ all_candidates[c].inCount >= 1
        /\ \E ij \in LinkPositions : ~IsCandidatePage(ij[1]) /\ Targets(ij, c)

(* C4, as amended: a candidate's out_count is the number of occurrences of
   non-excluded links, on the page records titled with the candidate's key,
   whose target is a candidate key; a repeated link counts every time and a
   link to a page that is no candidate does not count. *)
C4_OutCountOfCandidateTargets ==
    \A c \in DOMAIN all_candidates :
        all_candidates[c].outCount =
            Cardinality({ij \in LinkPositions :
                /\ scanned[ij[1]].title = c
                /\ \E t \in DOMAIN mined : Targets(ij, t)})

\* C4 as claimed: the number of distinct links on the candidate's own page
C4_OutCountDistinctLinks ==
    \A c \in DOMAIN all_candidates :
        all_candidates[c].outCount =
            Cardinality({LinkAt(ij) : ij \in
                {p \in LinkPositions : scanned[p[1]].title = c /\ ~IsExcluded(LinkAt(p))}})

\* a candidate page that links twice to the same candidate
C4_Witness ==
    \E c \in DOMAIN all_candidates :
        /\ all_candidates[c].outCount = 2
        /\ Cardinality(all_candidates[c].links) = 1
        /\ \E i \in 1..Len(scanned) : scanned[i].title = c /\ Len(scanned[i].links) = 2

----------------------------------------------------------------------------
\* a step of the dump scan and the page record it processes
IsScanStep == pc = "count" /\ Len(scanned') = Len(scanned) + 1

ScannedPage == scanned'[Len(scanned')]

\* the candidate targets of the non-excluded links of a page
CandidateTargets(page) ==
    {t \in DOMAIN all_candidates : Occurrences(page, t) > 0}

(* C5, as amended: scanning a page record whose title is a candidate key adds,
   for every non-excluded link on it whose target is a candidate key, 1 to the
   target's in_count and 1 to the page's out_count, and adds the target to the
   page's links set; a page record whose title is no candidate key changes
   nothing. *)
C5_ScanStepEffect ==
    [][IsScanStep =>
        IF Truthy(ScannedPage.title) /\ ScannedPage.title \in DOMAIN all_candidates
        THEN \A c \in DOMAIN all_candidates :
                /\ all_candidates'[c].inCount =
                       all_candidates[c].inCount + Occurrences(ScannedPage, c)
                /\ all_candidates'[c].outCount =
                       all_candidates[c].outCount +
                       (IF c = ScannedPage.title
                        THEN SumOver([t \in DOMAIN all_candidates |->
                                         Occurrences(ScannedPage, t)],
                                     DOMAIN all_candidates)
                        ELSE 0)
                /\ all_candidates'[c].links =
                       all_candidates[c].links \cup
                       (IF c = ScannedPage.title THEN CandidateTargets(ScannedPage) ELSE {})
        ELSE all_candidates' = all_candidates]_vars

\* C5 as claimed: every page record raises the in_count of its links' targets
C5_ScanStepEffectAnyPage ==
    [][IsScanStep =>
        \A c \in DOMAIN all_candidates :
            all_candidates'[c].inCount =
                all_candidates[c].inCount + Occurrences(ScannedPage, c)]_vars

\* the scenario: page Amsterdam, id 5042, one link [[Rotterdam]], Rotterdam known
C5_Witness ==
    /\ scanned = <<[title |-> Amsterdam, id |-> <<"5042">>, links |-> <<Rotterdam>>]>>
    /\ DOMAIN all_candidates = {Amsterdam, Rotterdam}
    /\ all_candidates[Rotterdam].inCount = 1
    /\ all_candidates[Amsterdam].outCount = 1
    /\ all_candidates[Amsterdam].links = {Rotterdam}

----------------------------------------------------------------------------
(* C6: after replace_links every candidate left in the map has a resolved id,
   and a candidate never seen as the title of a page record with an id (one
   that occurred only as a link target, say) is absent from the map. *)
C6_SurvivorsAreResolved ==
    Resolved =>
        /\ \A k \in DOMAIN all_candidates : Truthy(all_candidates[k].id)
        /\ \A k \in DOMAIN mined :
              k \in DOMAIN all_candidates <=>
                  \E i \in 1..Len(scanned) :
                      scanned[i].title = k /\ Truthy(scanned[i].id)

\* a candidate that was only a link target has been removed, another one survives
C6_Witness ==
    /\ Resolved
    /\ DOMAIN all_candidates # {}
    /\ \E k \in DOMAIN mined \ DOMAIN all_candidates :
          /\ \E ij \in LinkPositions : Targets(ij, k)
          /\ \A i \in 1..Len(scanned) : scanned[i].title # k

----------------------------------------------------------------------------
\* the popularities of the attached candidates whose line was not written
OmittedPopularities(ent, rec) ==
    {Popularity(all_candidates[k]) : k \in
        {a \in Range(ent.candidates) :
            \A j \in 1..Len(rec.candidates) : rec.candidates[j].name # all_candidates[a].name}}

TopByPopularity(ent, rec) ==
    LET emitted == rec.candidates
        n       == Len(ent.candidates)
    IN  /\ Len(emitted) = Min(TopK, n)
        /\ Len(emitted) <= 20
        \* each line is the line of an attached candidate, and of a different one
        /\ \A j \in 1..Len(emitted) :
              \E k \in AttachedNamed(ent, emitted[j].name) :
                  ReadPopularity(emitted[j]) = Popularity(all_candidates[k])
        /\ \A i, j \in 1..Len(emitted) : i # j => emitted[i].name # emitted[j].name
        \* popularity does not increase down the list
        /\ \A j \in 1..(Len(emitted) - 1) :
              ReadPopularity(emitted[j]) >= ReadPopularity(emitted[j + 1])
        \* nothing omitted is more popular than something written
        /\ \A j \in 1..Len(emitted) :
              \A p \in OmittedPopularities(ent, rec) : p <= ReadPopularity(emitted[j])

(* C7: for every exported entity occurrence the CANDIDATE lines are the first
   min(20, n) of its n attached candidates in order of popularity
   (in_count + out_count) descending: at most 20 lines, popularity
   non-increasing down the list, no omitted candidate more popular than a
   written one. *)
C7_TopTwentyByPopularity == ForAllBlocks(TopByPopularity)

MoreThanTopK(ent, rec) ==
    /\ Len(ent.candidates) > TopK
    /\ Len(rec.candidates) = TopK
    /\ \E j \in 1..(Len(rec.candidates) - 1) :
          ReadPopularity(rec.candidates[j]) > ReadPopularity(rec.candidates[j + 1])

\* an entity with more than 20 candidates of different popularity was exported
C7_Witness == ExistsBlock(MoreThanTopK)

----------------------------------------------------------------------------
\* place of the candidate named name in the list of keys, 0 when absent
RECURSIVE PlaceOfName(_, _, _)
PlaceOfName(keys, name, i) ==
    IF i > Len(keys) THEN 0
    ELSE IF all_candidates[keys[i]].name = name THEN i
    ELSE PlaceOfName(keys, name, i + 1)

TiesInOrder(ent, rec) ==
    \A j \in 1..(Len(rec.candidates) - 1) :
        ReadPopularity(rec.candidates[j]) = ReadPopularity(rec.candidates[j + 1]) =>
            \* the order of attachment to the entity
            /\ PlaceOfName(ent.candidates, rec.candidates[j].name, 1)
                   < PlaceOfName(ent.candidates, rec.candidates[j + 1].name, 1)
            \* which is the order of the candidate map, the miner's insertion order
            /\ PlaceOfName(key_order, rec.candidates[j].name, 1)
                   < PlaceOfName(key_order, rec.candidates[j + 1].name, 1)

(* C8: candidates of one entity with equal popularity are exported in the
   order in which they were attached to the entity, which is the order in
   which the miner first discovered them. *)
C8_TiesInDiscoveryOrder == ForAllBlocks(TiesInOrder)

HasTie(ent, rec) ==
    /\ \E j \in 1..(Len(rec.candidates) - 1) :
          ReadPopularity(rec.candidates[j]) = ReadPopularity(rec.candidates[j + 1])
    /\ \E j \in 1..(Len(rec.candidates) - 1) :
          ReadPopularity(rec.candidates[j]) > ReadPopularity(rec.candidates[j + 1])

\* an exported entity has candidates of equal and of different popularity
C8_Witness == ExistsBlock(HasTie)

----------------------------------------------------------------------------
(* C9: the in_count and out_count of every candidate after the dump scan are
   the same for every order in which the page records are processed. *)
C9_CountsIndependentOfOrder ==
    pc = "count" =>
        \A f \in Injections(Len(scanned)) :
            \A other \in {ScanAll(mined, Permuted(scanned, f))} :
                \A k \in DOMAIN all_candidates :
                    /\ other[k].inCount = all_candidates[k].inCount
                    /\ other[k].outCount = all_candidates[k].outCount

\* two different page records that both count have been scanned
C9_Witness ==
    /\ pc = "count"
    /\ Len(scanned) = 2
    /\ scanned[1] # scanned[2]
    /\ \A i \in 1..2 : IsCandidatePage(i) /\ scanned[i].links # <<>>
    /\ \E k \in DOMAIN all_candidates : all_candidates[k].inCount = 2

(* C10: the candidate map after counting and resolution has the same keys and,
   per candidate, the same id and links for every order in which the page
   records are processed, also when a title occurs on several page records. *)
C10_ResultIndependentOfOrder ==
    [][(pc = "count" /\ pc' = "attach") =>
        \A f \in Injections(Len(scanned)) :
            \A other \in {ReplaceLinksFrom(ScanAll(mined, Permuted(scanned, f)), key_order)} :
                /\ DOMAIN other = DOMAIN all_candidates'
                /\ \A k \in DOMAIN other :
                      /\ other[k].id = all_candidates'[k].id
                      /\ other[k].links = all_candidates'[k].links]_vars

----------------------------------------------------------------------------
(* The entity table *)

\* a row extract_entities takes an entity from
IsEntityRow(row) == Len(row) > 4 /\ IsBeginTag(row[2])

\* a row with fewer fields than the seven the builder reads
IsShortRow(row) == Len(row) < 7

RowsOfKey(key) ==
    {i \in 1..Len(rows) : IsEntityRow(rows[i]) /\ NormalizeName(rows[i][3]) = key}

FirstRowOfKey(key) == CHOOSE i \in RowsOfKey(key) : \A j \in RowsOfKey(key) : i <= j

(* C11: extract_entities never raises on a short row: rows with fewer than 5
   fields, and rows of 5 or 6 fields (no freebase-id column), are skipped, also
   a B-tagged one with a new key, and the table of the remaining rows is
   returned. *)
C11_ShortRowsAreSkipped ==
    /\ pc # IndexError
    /\ pc = "mine" =>
          entities = ExtractEntitiesFrom(<<>>, SelectSeq(rows, LAMBDA r : ~IsShortRow(r))).table

(* C12: in the returned entity table each normalized key occurs once and carries
   the provenance fields of the first B-tagged row, in file order, that
   normalizes to it; later rows with the same key change nothing. *)
C12_FirstRowWins ==
    pc = "mine" =>
        /\ DOMAIN entities =
              {NormalizeName(rows[i][3]) : i \in {j \in 1..Len(rows) : IsEntityRow(rows[j])}}
        /\ \A key \in DOMAIN entities :
              \A first \in {rows[FirstRowOfKey(key)]} :
                 /\ entities[key].name = first[3]
                 /\ entities[key].wname = first[4]
                 /\ entities[key].link = first[5]
                 /\ entities[key].wid = first[6]
                 /\ entities[key].fid = first[7]

\* two complete B-tagged rows of one key with different provenance were read
C12_Witness ==
    /\ pc = "mine"
    /\ \E i, j \in 1..Len(rows) :
          /\ i < j
          /\ IsEntityRow(rows[i]) /\ IsEntityRow(rows[j])
          /\ ~IsShortRow(rows[i]) /\ ~IsShortRow(rows[j])
          /\ NormalizeName(rows[i][3]) = NormalizeName(rows[j][3])
          /\ rows[i][3] # rows[j][3]
          /\ rows[i][6] # rows[j][6]

(* C13: entity-name normalization (remove spaces, cut at the first "(",
   lower-case) is idempotent, and the miner's re-normalization of the entity
   keys (lower-case, remove spaces) leaves every key unchanged. *)
C13_NormalizationIdempotent ==
    /\ \A i \in 1..Len(rows) :
          Len(rows[i]) > 2 =>
              NormalizeName(NormalizeName(rows[i][3])) = NormalizeName(rows[i][3])
    /\ \A key \in DOMAIN entities : MinerKey(key) = key
    /\ EntityNames(entities) = DOMAIN entities

\* a name with capitals, a space and a parenthetical gave a key of the table
C13_Witness ==
    /\ pc = "mine"
    /\ \E i \in 1..Len(rows) :
          /\ IsEntityRow(rows[i])
          /\ {" ", "("} \subseteq Range(rows[i][3])
          /\ NormalizeName(rows[i][3]) \in DOMAIN entities
          /\ NormalizeName(rows[i][3]) # rows[i][3]
          /\ Lower(rows[i][3]) # rows[i][3]

----------------------------------------------------------------------------
(* The candidate miner *)

\* every [[...]] marker of a line, leftmost first (the matches of re.findall)
RECURSIVE AllMarkers(_)
AllMarkers(line) ==
    LET open == Find(line, "[[") IN
    IF open = 0 THEN <<>>
    ELSE LET close == Find(SubSeq(line, open + 1, Len(line)), "]]") IN
         IF close = 0 THEN <<>>
         ELSE <<SubSeq(line, open + 1, open + close - 1)>>
              \o AllMarkers(SubSeq(line, open + close + 1, Len(line)))

\* the non-empty aliases of a marker, in the order they are tried
AliasesOf(group) ==
    SelectSeq(<<MarkerName(group), MarkerAlias1(group), MarkerAlias2(group)>>, Truthy)

\* the places of the aliases of a marker that are entity keys
MatchingPlaces(group) ==
    {i \in 1..Len(AliasesOf(group)) : MinerKey(AliasesOf(group)[i]) \in DOMAIN entities}

\* the entity key of the earliest alias of a marker that is one
EarliestKey(group) ==
    MinerKey(AliasesOf(group)[CHOOSE i \in MatchingPlaces(group) :
                                  \A j \in MatchingPlaces(group) : i <= j])

\* the (candidate, entity key) pairs a candidate map holds
Pairs(cands) ==
    UNION {{<<c, e>> : e \in cands[c].references} : c \in DOMAIN cands}

\* a step of the miner, and the line it read
IsMineStep == pc = "mine" /\ corpus' # corpus

MinedLine == corpus'[Len(corpus')]

\* the marker re.search finds on the line just read (None without one)
MinedMarker == MarkerText(Strip(MinedLine, Whitespace))

(* C14: for every corpus line that contains a [[Target]] or [[Target|Alias]]
   marker whose name, alias_1 or alias_2 is an entity key, the candidate map
   holds a candidate keyed by the marker's target (text before "|", trimmed)
   with a matching entity key in its references; the line "The city
   [[Amsterdam|capital]] is busy" alone gives Amsterdam with {amsterdam}. *)
C14_EveryMarkerRecorded ==
    \A i \in 1..Len(corpus) :
        \A markers \in {AllMarkers(Strip(corpus[i], Whitespace))} :
            \A m \in 1..Len(markers) :
                MatchingPlaces(markers[m]) # {} =>
                    /\ MarkerName(markers[m]) \in DOMAIN all_candidates
                    /\ \E p \in MatchingPlaces(markers[m]) :
                          MinerKey(AliasesOf(markers[m])[p])
                              \in all_candidates[MarkerName(markers[m])].references

(* C14 as amended: the same for the first marker of every corpus line (the
   leftmost "[[" that a "]]" follows); later markers of a line are not read. *)
C14_FirstMarkerRecorded ==
    /\ \A i \in 1..Len(corpus) :
          \A markers \in {AllMarkers(Strip(corpus[i], Whitespace))} :
              (markers # <<>> /\ MatchingPlaces(markers[1]) # {}) =>
                  /\ MarkerName(markers[1]) \in DOMAIN all_candidates
                  /\ \E p \in MatchingPlaces(markers[1]) :
                        MinerKey(AliasesOf(markers[1])[p])
                            \in all_candidates[MarkerName(markers[1])].references
    /\ (Len(corpus) = 1 /\ <<"Amsterdam", "|", "capital">> \in Range(AllMarkers(corpus[1]))) =>
          /\ DOMAIN all_candidates = {Amsterdam}
          /\ all_candidates[Amsterdam].references = {<<"amsterdam">>}

\* a line whose marker matches through its alias only was mined
C14_Witness ==
    /\ \E i \in 1..Len(corpus) : AllMarkers(corpus[i]) = << <<"Mokum", "|", "Amsterdam">> >>
    /\ <<"Mokum">> \in DOMAIN all_candidates
    /\ <<"amsterdam">> \in all_candidates[<<"Mokum">>].references
    /\ pc = "count"

(* C15: a line adds at most one (candidate, entity key) pair, that of the
   earliest alias, in the order name, alias_1, alias_2, that is an entity key,
   also when a later alias is the key of another entity. *)
C15_FirstMatchWins ==
    [][IsMineStep =>
        /\ Cardinality(Pairs(all_candidates') \ Pairs(all_candidates)) <= 1
        /\ \A group \in {MinedMarker} :
              IF group # None /\ MatchingPlaces(group) # {}
              THEN Pairs(all_candidates') =
                       Pairs(all_candidates) \cup {<<MarkerName(group), EarliestKey(group)>>}
              ELSE Pairs(all_candidates') = Pairs(all_candidates)]_vars

\* a line whose name and alias_1 are the keys of two entities was mined
C15_Witness ==
    /\ corpus # <<>>
    /\ AllMarkers(corpus[Len(corpus)]) = << <<"Rotterdam", "|", "Amsterdam">> >>
    /\ Pairs(all_candidates) = {<<Rotterdam, <<"rotterdam">>>>}

\* the bracket text of a marker without "|", trimmed, and cut at its first "("
WholeText(group) == Strip(group, Whitespace)

CutText(group) == Strip(BeforeFirst(group, "("), Whitespace)

\* the mined line has a first marker, and it holds no "|"
MinedWithoutPipe == MinedMarker # None /\ "|" \notin Range(MinedMarker)

(* C16: a line whose marker has no "|" is handled by the single-bracket
   extraction: only the whole bracket text, trimmed and normalized, is compared
   with the entity keys, and that text becomes the candidate; a line whose
   extraction fails is skipped and mining goes on without raising. *)
C16_SingleBracketExtraction ==
    [][IsMineStep =>
        /\ pc' = "mine"
        /\ MinedMarker = None => all_candidates' = all_candidates
        /\ MinedWithoutPipe =>
              \A text \in {WholeText(MinedMarker)} :
                  IF MinerKey(text) \in DOMAIN entities
                  THEN Pairs(all_candidates') =
                           Pairs(all_candidates) \cup {<<text, MinerKey(text)>>}
                  ELSE Pairs(all_candidates') = Pairs(all_candidates)]_vars

(* C16 as amended: a line whose marker has no "|" is handled like any other,
   with alias_1 absent: the whole bracket text and then the text before its
   first "(", each trimmed and normalized, are compared with the entity keys,
   and the whole trimmed text becomes the candidate of the first that is one; a
   line without a complete marker changes nothing, and no line raises. *)
C16_NoPipeExtraction ==
    [][IsMineStep =>
        /\ pc' = "mine"
        /\ MinedMarker = None => all_candidates' = all_candidates
        /\ MinedWithoutPipe =>
              \A text \in {WholeText(MinedMarker)}, cut \in {CutText(MinedMarker)} :
                  IF Truthy(text) /\ MinerKey(text) \in DOMAIN entities
                  THEN Pairs(all_candidates') =
                           Pairs(all_candidates) \cup {<<text, MinerKey(text)>>}
                  ELSE IF Truthy(cut) /\ MinerKey(cut) \in DOMAIN entities
                  THEN Pairs(all_candidates') =
                           Pairs(all_candidates) \cup {<<text, MinerKey(cut)>>}
                  ELSE Pairs(all_candidates') = Pairs(all_candidates)]_vars

\* a marker without "|" matched through the text before its parenthesis, after
\* a line without a complete marker
C16_Witness ==
    /\ Len(corpus) > 1
    /\ MarkerText(corpus[1]) = None /\ "[[" \in Range(corpus[1])
    /\ AllMarkers(corpus[Len(corpus)]) = << <<"Amsterdam", " ", "(", "stad", ")">> >>
    /\ Pairs(all_candidates) = {<< <<"Amsterdam", " ", "(", "stad", ")">>, <<"amsterdam">> >>}

\* a candidate record as add_candidate creates it, whatever its references
IsFreshRecord(key, record) == record = NewCandidate(key, record.references)

(* C17: while mining the map holds one record per candidate key; finding a key
   again only adds the entity key to the record's references and leaves id,
   in_count, out_count, links and the display fields as they were, and every
   candidate has at least one reference. *)
C17_OneRecordPerKey ==
    [][IsMineStep =>
        /\ Range(key_order') = DOMAIN all_candidates'
        /\ Cardinality(DOMAIN all_candidates') = Len(key_order')
        /\ \A k \in DOMAIN all_candidates :
              /\ k \in DOMAIN all_candidates'
              /\ all_candidates[k].references \subseteq all_candidates'[k].references
              /\ all_candidates'[k] =
                    [all_candidates[k] EXCEPT !.references = all_candidates'[k].references]
        /\ \A k \in DOMAIN all_candidates' :
              /\ all_candidates'[k].references # {}
              /\ all_candidates'[k].references \subseteq DOMAIN entities]_vars

\* a candidate was found again for another entity
C17_Witness ==
    /\ pc = "count"
    /\ \E k \in DOMAIN all_candidates : Cardinality(all_candidates[k].references) = 2
    /\ Len(corpus) > Cardinality(DOMAIN all_candidates)

----------------------------------------------------------------------------
(* The exported files *)

\* the ENTITY line read back carries the five fields of the entity, and as many
\* CANDIDATE lines follow it as the entity has candidates, up to TopK
BlockOfEntity(ent, rec) ==
    /\ rec.text = ent.name
    /\ rec.url = ent.link
    /\ rec.wname = ent.wname
    /\ rec.id = ent.wid
    /\ rec.freebase_id = ent.fid
    /\ Len(rec.candidates) = Min(TopK, Len(ent.candidates))
    /\ \A j \in 1..Len(rec.candidates) : AttachedNamed(ent, rec.candidates[j].name) # {}

LinesOfKind(file, kind) == {i \in 1..Len(file) : file[i] # <<>> /\ Head(file[i]) = kind}

(* C18: for every document split i export_data writes one file named str(i)
   that holds, for each entity key of the split in order, one ENTITY line with
   the entity's name, url, wiki name, wiki id and freebase id, directly followed
   by the entity's CANDIDATE lines, and nothing else; an entity without
   candidates gives its ENTITY line and no CANDIDATE line. *)
C18_OneBlockPerEntity ==
    /\ Len(written) = Len(out_files)
    /\ \A f \in 1..Len(written) :
          /\ TextToInt(written[f]) = f - 1
          /\ \A g \in 1..Len(written) : written[f] = written[g] => f = g
    /\ ForAllBlocks(BlockOfEntity)
    /\ \A f \in 1..Len(out_files) :
          /\ Cardinality(LinesOfKind(out_files[f], "ENTITY")) = Len(doc_splits[f])
          /\ LinesOfKind(out_files[f], "ENTITY") \cup LinesOfKind(out_files[f], "CANDIDATE")
                = 1..Len(out_files[f])
          /\ out_files[f] # <<>> => 1 \in LinesOfKind(out_files[f], "ENTITY")

HasNoCandidates(ent, rec) == ent.candidates = <<>> /\ rec.candidates = <<>>

HasCandidates(ent, rec) == Len(rec.candidates) > 1

\* a second file was written, with an entity that has candidates and one that
\* has none
C18_Witness ==
    /\ Len(out_files) = 2
    /\ ExistsBlock(HasNoCandidates)
    /\ ExistsBlock(HasCandidates)

\* number of places of a list that hold x
OccurrencesIn(list, x) == Cardinality({i \in 1..Len(list) : list[i] = x})

(* C19: after add_candidates_to_entities every surviving candidate occurs in
   the candidate list of an entity exactly once if the entity key is in the
   candidate's references and not at all otherwise, and no candidate the
   resolver removed is attached to any entity. *)
C19_AttachedByReference ==
    pc = "export" =>
        \A e \in DOMAIN entities :
            /\ \A c \in DOMAIN all_candidates :
                  OccurrencesIn(entities[e].candidates, c) =
                      (IF e \in all_candidates[c].references THEN 1 ELSE 0)
            /\ \A c \in DOMAIN mined \ DOMAIN all_candidates :
                  OccurrencesIn(entities[e].candidates, c) = 0
            /\ Range(entities[e].candidates) \subseteq DOMAIN all_candidates

\* candidates of one and of two entities were attached, and a removed one that
\* referred to an entity was not
C19_Witness ==
    /\ pc = "export"
    /\ \E c \in DOMAIN all_candidates : Cardinality(all_candidates[c].references) = 1
    /\ \E c \in DOMAIN all_candidates : Cardinality(all_candidates[c].references) = 2
    /\ \E c \in DOMAIN mined \ DOMAIN all_candidates : mined[c].references # {}
    /\ \E e \in DOMAIN entities : Len(entities[e].candidates) > 1

(* C20: directly after mining every candidate has id None, in_count 0,
   out_count 0 and no links; during the dump scan the id of a candidate changes
   from None only when a page whose title is the candidate key is scanned, and
   it is then that page's id. *)
C20_IdSetByOwnPage ==
    [][IsScanStep =>
        /\ scanned = <<>> =>
              \A k \in DOMAIN all_candidates :
                  /\ all_candidates[k].id = None
                  /\ all_candidates[k].inCount = 0
                  /\ all_candidates[k].outCount = 0
                  /\ all_candidates[k].links = {}
                  /\ IsFreshRecord(k, all_candidates[k])
        /\ \A k \in DOMAIN all_candidates :
              (all_candidates[k].id = None /\ all_candidates'[k].id # None) =>
                  /\ ScannedPage.title = k
                  /\ all_candidates'[k].id = ScannedPage.id]_vars

\* a page with an id and a link to another candidate was scanned: the page's
\* candidate has the id and the linked one still has none
C20_Witness ==
    /\ pc = "count"
    /\ Len(scanned) = 1
    /\ \E k, t \in DOMAIN all_candidates :
          /\ k # t
          /\ scanned[1].title = k
          /\ all_candidates[k].id = scanned[1].id
          /\ all_candidates[k].id # None
          /\ t \in all_candidates[k].links
          /\ all_candidates[t].id = None

----------------------------------------------------------------------------
\* the fields of an entity that extract_entities writes and no later pass rewrites
SameEntityFields(old, new) ==
    /\ new.name = old.name
    /\ new.link = old.link
    /\ new.wname = old.wname
    /\ new.fid = old.fid
    /\ new.wid = old.wid

\* old is an initial part of new
IsPrefix(old, new) ==
    /\ Len(old) <= Len(new)
    /\ SubSeq(new, 1, Len(old)) = old

\* the fields of a candidate that the miner writes at creation
SameCreationFields(old, new) ==
    /\ new.url = old.url
    /\ new.name = old.name
    /\ new.normalName = old.normalName
    /\ new.normalWikiTitle = old.normalWikiTitle

(* C21: every step of mining, counting, resolution, attachment and export leaves the
   key set of the entity table and the name, link, wname, fid and wid of each
   entity as they were, the candidates list of an entity only grows at its end,
   no entity is deleted, and every candidate that survives a step after mining keeps its
   url, name, normalName and normalWikiTitle. *)
C21_CreationFieldsFrozen ==
    [][/\ DOMAIN entities' = DOMAIN entities
       /\ \A e \in DOMAIN entities :
             /\ SameEntityFields(entities[e], entities'[e])
             /\ IsPrefix(entities[e].candidates, entities'[e].candidates)
       /\ pc # "mine" =>
             /\ DOMAIN all_candidates' \subseteq DOMAIN all_candidates
             /\ \A c \in DOMAIN all_candidates' :
                   SameCreationFields(all_candidates[c], all_candidates'[c])]_vars

\* every pass has run: a page was counted, a candidate without page was deleted,
\* a survivor was attached and a file was written
C21_Witness ==
    /\ pc = "export"
    /\ out_files # <<>>
    /\ \E c \in DOMAIN all_candidates : all_candidates[c].inCount > 0
    /\ DOMAIN mined \ DOMAIN all_candidates # {}
    /\ \E e \in DOMAIN entities : entities[e].candidates # <<>>

----------------------------------------------------------------------------
InCounts == [c \in DOMAIN all_candidates |-> all_candidates[c].inCount]

OutCounts == [c \in DOMAIN all_candidates |-> all_candidates[c].outCount]

(* C24: after any sequence of scanned pages, before replace_links runs, the
   inCount values of all candidates add up to the same number as their outCount
   values, and the links set of a candidate has at most outCount members. *)
C24_CountsBalance ==
    pc = "count" =>
        /\ SumOver(InCounts, DOMAIN all_candidates)
               = SumOver(OutCounts, DOMAIN all_candidates)
        /\ \A c \in DOMAIN all_candidates :
               Cardinality(all_candidates[c].links) <= all_candidates[c].outCount

\* a page linked one other candidate twice
C24_Witness ==
    /\ pc = "count"
    /\ \E c, d \in DOMAIN all_candidates :
          /\ c # d
          /\ all_candidates[c].links = {d}
          /\ all_candidates[c].outCount = 2
          /\ all_candidates[d].inCount = 2

----------------------------------------------------------------------------
(* The corpus file as a sequence of documents *)

\* line i of the corpus file, as load_dataset sees it
LineOf(i) == Strip(JoinFields(rows[i]), Whitespace)

SplitStartLines == <<TRAIN_START_LINE, TESTA_START_LINE, TESTB_START_LINE>>

SplitLinePositions == {i \in 1..Len(rows) : LineOf(i) \in Range(SplitStartLines)}

DocLinePositions == {i \in 1..Len(rows) : StartsWith(LineOf(i), <<DocStart>>)}

\* the positions in P below i
Below(P, i) == {j \in P : j < i}

\* the position of the "-DOCSTART-" line of document id, ids counting from 0
DocLineOf(id) == CHOOSE i \in DocLinePositions : Cardinality(Below(DocLinePositions, i)) = id

\* the "-SPLITSTART-" lines come in the order train, testa, testb, each followed
\* by the "-DOCSTART-" line of the first document of the split
SplitLinesInOrder ==
    \A i \in SplitLinePositions :
        /\ LineOf(i) = SplitStartLines[Cardinality(Below(SplitLinePositions, i)) + 1]
        /\ i + 1 \in DocLinePositions

\* 1 for train, 2 for testa, 3 for testb: the split whose start line most
\* recently precedes the start of document id, 0 when none does
PrecedingSplit(id) ==
    LET before == Below(SplitLinePositions, DocLineOf(id)) IN
    IF before = {} THEN 0
    ELSE LET last == CHOOSE i \in before : \A j \in before : j <= i
         IN  CHOOSE s \in 1..3 : SplitStartLines[s] = LineOf(last)

(* C22: when load_dataset has read the whole file, every document is stored in
   the split whose "-SPLITSTART-" line most recently precedes the "-DOCSTART-"
   line of the document: the last document of train is in train, the last of
   testa in testa. *)
C22_StoredUnderPrecedingSplit ==
    (pc = "loaded" /\ SplitLinesInOrder) =>
        \A s \in 1..3 : \A k \in 1..Len(loader.annotations[s]) :
            PrecedingSplit(loader.annotations[s][k].document_id) \in {0, s}

----------------------------------------------------------------------------
\* split_tsv_file has returned
SplitDone == pc \in {"export", "load", "loaded", "KeyError", "AttributeError"}

\* no row with a gold mention comes before the first "-DOCSTART-" line
StartsWithDocument ==
    \A i \in 1..Len(rows) :
        IsEntityRow(rows[i]) => Below(DocLinePositions, i) # {}

\* the entity keys of the gold mentions in the rows from i to j, in order
RECURSIVE KeysBetween(_, _)
KeysBetween(i, j) ==
    IF i > j THEN <<>>
    ELSE IF IsEntityRow(rows[i]) THEN <<NormalizeName(rows[i][3])>> \o KeysBetween(i + 1, j)
    ELSE KeysBetween(i + 1, j)

\* the last row of document id
DocEndOf(id) ==
    IF id + 1 < Cardinality(DocLinePositions) THEN DocLineOf(id + 1) - 1 ELSE Len(rows)

(* C23: split_tsv_file returns one entry per "-DOCSTART-" delimited document,
   in corpus order, a document without gold mention included, also when it is
   the last; so load_dataset asks for the file named after the number of the
   document, and that file was written. *)
C23_OneFilePerDocument ==
    /\ (SplitDone /\ StartsWithDocument) =>
          /\ Len(doc_splits) = Cardinality(DocLinePositions)
          /\ \A d \in 1..Len(doc_splits) :
                doc_splits[d] = KeysBetween(DocLineOf(d - 1), DocEndOf(d - 1))
    /\ (pc \in {"load", "loaded", "KeyError"} /\ StartsWithDocument) =>
          \A k \in 1..Len(loader.opened) :
              /\ loader.opened[k] = FileName(k - 1)
              /\ loader.opened[k] \in Range(written)

----------------------------------------------------------------------------
(* C25: every entity key that split_tsv_file places in a document split is a key
   of the entity table extract_entities built from the same file, so that
   export_data finds entities[ent] for each of them. *)
C25_SplitKeysAreEntities ==
    SplitDone =>
        \A d \in 1..Len(doc_splits) : \A k \in 1..Len(doc_splits[d]) :
            doc_splits[d][k] \in DOMAIN entities

\* two documents with a gold mention each were exported, and the file also held
\* a begin row too short for either function to take
C25_Witness ==
    /\ pc = "export"
    /\ Len(out_files) = 2
    /\ \A d \in 1..2 : doc_splits[d] # <<>> /\ out_files[d] # <<>>
    /\ \E i \in 1..Len(rows) : Len(rows[i]) = 4 /\ IsBeginTag(rows[i][2])

----------------------------------------------------------------------------
\* every annotation record of a document, flushed or not
RECURSIVE Flatten(_)
Flatten(lists) == IF lists = <<>> THEN <<>> ELSE Head(lists) \o Flatten(Tail(lists))

TokensOf(document) == Flatten(document.annotations) \o document.current_annotation

\* the number of tokens of the current document that record c is attached to
AttachedTo(c) ==
    LET tokens == TokensOf(loader.current_document[1]) IN
    Cardinality({t \in 1..Len(tokens) : tokens[t].candidates = c})

\* load_dataset is inside a document
InDocument ==
    /\ pc \in {"load", "loaded"}
    /\ loader.current_document # <<>>

(* C30: in every state of load_dataset, the non_considered_word_count of each
   candidate record of the current document is the number of '_'-separated
   words of its wname less the number of annotation tokens it is attached to,
   and is never below 0; a token is attached to at most one record, and only to
   one whose normalized text is the normalized mention of the token. *)
C30_WordCountBudget ==
    InDocument =>
        /\ \A c \in 1..Len(loader.current_document_candidates) :
              LET record == loader.current_document_candidates[c] IN
              /\ record.non_considered_word_count >= 0
              /\ record.non_considered_word_count
                     = Len(Split(record.orig_text, "_")) - AttachedTo(c)
        /\ LET tokens == TokensOf(loader.current_document[1]) IN
           \A t \in 1..Len(tokens) :
               tokens[t].candidates # 0 =>
                   normalize_mention_text(
                       loader.current_document_candidates[tokens[t].candidates].orig_text)
                       = normalize_mention_text(tokens[t].full_mention)

\* a record of two words is used up by two tokens and a third token of the same
\* mention is left without a record
C30_Witness ==
    /\ InDocument
    /\ \E c \in 1..Len(loader.current_document_candidates) :
          /\ loader.current_document_candidates[c].non_considered_word_count = 0
          /\ AttachedTo(c) = 2
    /\ \E t \in 1..Len(TokensOf(loader.current_document[1])) :
          /\ TokensOf(loader.current_document[1])[t].candidates = 0
          /\ Len(TokensOf(loader.current_document[1])[t].full_mention) = 3

----------------------------------------------------------------------------
(* CreateRedirects._run: the redirect dictionary, built in two sweeps over the
   lines of the downloaded file *)

\* the variables of create_entities_candidates.py other than pc
pipeline == <<entities, all_candidates, key_order, mined, scanned, doc_splits, out_files,
              written, rows, corpus>>

MaxRedirectLines == 3

PageNames == {"Mokum", "Amsterdam_(stad)", "Amsterdam", "Hoofdstad"}

\* a redirect line of the file, stripped
RedirectLine(source, target) ==
    <<"<http://nl.dbpedia.org/resource/", source,
      "> <http://dbpedia.org/ontology/wikiPageRedirects> ",
      "<http://nl.dbpedia.org/resource/", target, "> .">>

\* the lines of the file: redirects between different pages and a comment
RedirectLines ==
    {RedirectLine(n[1], n[2]) : n \in {m \in PageNames \X PageNames : m[1] # m[2]}}
    \cup {<<"#", " ", "started">>}

\* redirect_matcher.match(line_decoded): the two groups, <<>> for no match
RedirectMatch(line) ==
    IF Len(line) = 6 /\ line = RedirectLine(line[2], line[5])
    THEN <<line[2], line[5]>>
    ELSE <<>>

\* d[key] = value
SetItem(d, key, value) == [k \in DOMAIN d \cup {key} |-> IF k = key THEN value ELSE d[k]]

\* the body of the first loop (lines 47-55)
FirstSweep(job, line) ==
    LET match == RedirectMatch(line) IN
    IF match # <<>>
    THEN [job EXCEPT !.redirects = SetItem(@, match[1], match[2]),
                     !.redirects_first_sweep = SetItem(@, match[1], match[2])]
    ELSE job

\* the body of the second loop (lines 61-67)
SecondSweep(job, line) ==
    LET match == RedirectMatch(line) IN
    IF match # <<>> /\ match[2] \in DOMAIN job.redirects
    THEN [job EXCEPT !.redirects = SetItem(@, match[1], job.redirects[match[2]])]
    ELSE job

\* lines 38-39; file holds the lines of the download, read counts the lines the
\* second loop has consumed
InitRedirects ==
    /\ pc = "first sweep"
    /\ redirects_job = [redirects |-> <<>>, redirects_first_sweep |-> <<>>,
                        file |-> <<>>, read |-> 0]
    /\ entities = <<>>
    /\ all_candidates = <<>>
    /\ key_order = <<>>
    /\ mined = <<>>
    /\ scanned = <<>>
    /\ doc_splits = <<>>
    /\ out_files = <<>>
    /\ written = <<>>
    /\ rows = <<>>
    /\ corpus = <<>>
    /\ loader = <<>>
    /\ conll_job = <<>>

\* one line of the first loop
FirstSweepLine ==
    /\ pc = "first sweep"
    /\ Len(redirects_job.file) < MaxRedirectLines
    /\ \E line \in RedirectLines :
          redirects_job' = [FirstSweep(redirects_job, line) EXCEPT !.file = Append(@, line)]
    /\ UNCHANGED <<pc, pipeline, loader, conll_job>>

\* the first loop is through the file: the file is opened again (line 59)
OpenSecondSweep ==
    /\ pc = "first sweep"
    /\ pc' = "second sweep"
    /\ UNCHANGED <<pipeline, others>>

\* one line of the second loop
SecondSweepLine ==
    /\ pc = "second sweep"
    /\ redirects_job.read < Len(redirects_job.file)
    /\ redirects_job' =
           [SecondSweep(redirects_job, redirects_job.file[redirects_job.read + 1])
                EXCEPT !.read = @ + 1]
    /\ UNCHANGED <<pc, pipeline, loader, conll_job>>

\* pickle.dump(redirects, f) (lines 69-70)
DumpRedirects ==
    /\ pc = "second sweep"
    /\ redirects_job.read = Len(redirects_job.file)
    /\ pc' = "dumped"
    /\ UNCHANGED <<pipeline, others>>

NextRedirects == FirstSweepLine \/ OpenSecondSweep \/ SecondSweepLine \/ DumpRedirects

SpecRedirects == InitRedirects /\ [][NextRedirects]_vars

----------------------------------------------------------------------------
\* the sources reached from page by following the redirects of the file, page
\* included, after at most n hops
RECURSIVE Reached(_, _)
Reached(page, n) ==
    IF n = 0 \/ page \notin DOMAIN redirects_job.redirects_first_sweep THEN {page}
    ELSE {page} \cup Reached(redirects_job.redirects_first_sweep[page], n - 1)

\* no page of the file redirects, directly or through others, to itself
NoRedirectCycle ==
    \A s \in DOMAIN redirects_job.redirects_first_sweep :
        s \notin Reached(redirects_job.redirects_first_sweep[s],
                         Cardinality(DOMAIN redirects_job.redirects_first_sweep))

(* C26: after the two sweeps of CreateRedirects._run the redirect chains are
   fully collapsed: for every source s, redirects[s] is not itself a source,
   whatever the length of the chain and the order of the lines. *)
C26_ChainsCollapsed ==
    (pc = "dumped" /\ NoRedirectCycle) =>
        \A s \in DOMAIN redirects_job.redirects :
            redirects_job.redirects[s] \notin DOMAIN redirects_job.redirects

----------------------------------------------------------------------------
(* CreateAIDACONLL._run: the token records of the benchmark file *)

\* the items of merged_el (lines 78-98): a blank line, the first lines of a
\* train and of a testa document, two tokens outside a mention, the tokens of a
\* mention of a known page, a mention of an unknown page and a mention without
\* page
DocStartItems == {<<"-DOCSTART- (1 EU)">>, <<"-DOCSTART- testa (947 CRICKET)">>}

WikiUrl(page) == <<"http:", "/", "/", "nl.wikipedia.org", "/", "wiki", "/", page>>

MergedItems ==
    {<<"">>, <<"HIJ", <<"O">>>>, <<".", <<"O">>>>}
    \cup DocStartItems
    \cup {<<"Amsterdam", <<bio, "-", "LOC">>, "Amsterdam", "Amsterdam", WikiUrl("Amsterdam"),
            "5042", "/m/0k3p">> : bio \in {"B", "I"}}
    \cup {<<"Mokum", <<"B", "-", "LOC">>, "Mokum", "Mokum", WikiUrl("Mokum"), "123">>,
          <<"Mokum", <<"B", "-", "LOC">>, "Mokum", "--NME--">>}

\* line_items[0].startswith(prefix) for the first field of an item
IsDocStartItem(line_items) == line_items \in DocStartItems

\* lines 116-130: the split after an item, "valid" from the first line of a
\* testa document on and "test" from the first line of a testb document on
SplitAfter(split, line_items) ==
    IF line_items = <<"-DOCSTART- testb (1163 SOCCER)">> THEN "test"
    ELSE IF line_items = <<"-DOCSTART- testa (947 CRICKET)">> THEN "valid"
    ELSE split

\* the values of item['wiki_name']: None, a str and a Counter with its keys in
\* insertion order
WikiNone == [kind |-> "None", keys |-> <<>>]

WikiStr(s) == [kind |-> "str", keys |-> <<s>>]

\* lines 205-245 with the dictionaries of the pickles empty: the page of the
\* url, and None added by lines 228-232 for the page without redirect
WikiCounter(url) ==
    LET parts == Split(url, "/") IN
    [kind |-> "Counter", keys |-> <<parts[Len(parts)], None>>]

\* the fields of a record that CreateIntegerizedCONLLTrainingData reads
ConllRecord(tok, bio, wiki_name, doc_start, st) ==
    [tok |-> tok, bio |-> bio, wiki_name |-> wiki_name, doc_start |-> doc_start,
     sent_nr |-> st.sentence_nr, tok_nr |-> st.tok_nr, split |-> st.split]

\* lines 106-110
ConllStart ==
    [multinerd_dataset |-> <<>>, sentence_nr |-> 0, tok_nr |-> 0, split |-> "train",
     raised |-> ""]

\* one iteration of "for line_nr, line_items in enumerate(merged_el)" (lines
\* 114-255)
ConllLine(st, line_items) ==
    LET at == [st EXCEPT !.split = SplitAfter(st.split, line_items)]
        token(bio, wiki_name) ==
            LET counted == [at EXCEPT !.tok_nr = @ + 1] IN
            [counted EXCEPT !.multinerd_dataset =
                 Append(@, ConllRecord(line_items[1], bio, wiki_name, FALSE, counted))]
    IN  IF Len(line_items) = 1 /\ line_items[1] = ""
        THEN [at EXCEPT !.sentence_nr = @ + 1, !.tok_nr = 0]
        ELSE IF Len(line_items) > 0 /\ IsDocStartItem(line_items)
        THEN LET reset == [at EXCEPT !.sentence_nr = 0] IN
             [reset EXCEPT !.multinerd_dataset =
                  Append(@, ConllRecord(line_items[1], None, WikiNone, TRUE, reset))]
        ELSE IF Len(line_items) = 2 THEN token(<<"O">>, WikiNone)
        ELSE IF Len(line_items) = 4
        THEN token(BeforeFirst(line_items[2], "-"), WikiStr(line_items[4]))
        ELSE IF Len(line_items) \in {6, 7}
        THEN token(BeforeFirst(line_items[2], "-"), WikiCounter(line_items[5]))
        ELSE [at EXCEPT !.raised = "Exception"]

----------------------------------------------------------------------------
(* CreateIntegerizedCONLLTrainingData._run: the documents of sub-word pieces *)

\* popular_entity_to_id_dict
popular_entity_to_id_dict == (<<"Amsterdam">> :> 7)

\* tokenizer.get_vocab(): the pieces the tokenizer knows, in the order of their
\* ids
Pieces == <<"Hij", ".", "_Am", "ster", "dam", "_Mok", "um">>

\* tokenizer.tokenize(item_tok)
Tokenize(item_tok) ==
    CASE item_tok = "Amsterdam" -> <<"_Am", "ster", "dam">>
      [] item_tok = "Mokum"     -> <<"_Mok", "um">>
      [] OTHER                  -> <<item_tok>>

\* tokenizer.convert_tokens_to_ids([tok])[0]
TokenId(tok) ==
    IF tok \in Range(Pieces) THEN CHOOSE i \in 1..Len(Pieces) : Pieces[i] = tok ELSE 0

\* str.isupper(), item_tok[0] + item_tok[1:].lower() and str.lower() for the
\* tokens of the file
IsUpper(tok) == tok = "HIJ"

Capitalized(tok) == IF tok = "HIJ" THEN "Hij" ELSE tok

LowerCased(tok) ==
    CASE tok = "HIJ" -> "hij" [] tok = "Amsterdam" -> "amsterdam" [] tok = "Mokum" -> "mokum"
      [] OTHER -> tok

\* lines 88-93
ItemTok(tok) ==
    IF IsUpper(tok) /\ tok \notin Range(Pieces)
    THEN IF Capitalized(tok) \in Range(Pieces) THEN Capitalized(tok)
         ELSE IF LowerCased(tok) \in Range(Pieces) THEN LowerCased(tok)
         ELSE tok
    ELSE tok

\* bio_id (line 44)
bio_id(bio) == CASE bio = <<"B">> -> 0 [] bio = <<"I">> -> 1 [] bio = <<"O">> -> 2

\* the tuple of line 103
Piece(tok, bio, wiki_name, wiki_id, doc) ==
    [tok |-> tok, tok_id |-> TokenId(tok), bio |-> bio, bio_id |-> bio_id(bio),
     wiki_name |-> wiki_name, wiki_id |-> wiki_id, pos |-> Len(doc)]

\* lines 34-44; doc and the lists are sequences, doc wrapped in a list that is
\* empty for None; read counts the records consumed
IntegerizerStart ==
    [train |-> <<>>, valid |-> <<>>, test |-> <<>>, doc |-> <<>>, last_tok |-> "<None>",
     split |-> "<None>", current_split_name |-> "<None>", read |-> 0, raised |-> ""]

\* split.append(doc) for the list split names
AppendDoc(st, doc) == [st EXCEPT ![st.split] = Append(@, doc)]

\* lines 77-85: the first key of the Counter that is a popular entity, None when
\* there is none or no Counter
RECURSIVE FirstPopular(_)
FirstPopular(keys) ==
    IF keys = <<>> THEN None
    ELSE IF Head(keys) \in DOMAIN popular_entity_to_id_dict THEN Head(keys)
    ELSE FirstPopular(Tail(keys))

\* TagPieces that tags every piece of a B token B
RECURSIVE TagPiecesAllBegin(_, _, _, _, _)
TagPiecesAllBegin(doc, toks, bio, last_bio, wiki_name) ==
    IF toks = <<>> THEN doc
    ELSE LET wiki_id == IF Truthy(wiki_name) THEN popular_entity_to_id_dict[wiki_name]
                        ELSE -1
             tag     == IF wiki_id >= 0 THEN bio ELSE <<"O">>
         IN  TagPiecesAllBegin(Append(doc, Piece(Head(toks), tag, wiki_name, wiki_id, doc)),
                               Tail(toks), tag, tag, wiki_name)

\* the loop of lines 95-104 over the pieces toks of a token: doc after it
RECURSIVE TagPieces(_, _, _, _, _)
TagPieces(doc, toks, bio, last_bio, wiki_name) ==
    IF toks = <<>> THEN doc
    ELSE LET wiki_id == IF Truthy(wiki_name) THEN popular_entity_to_id_dict[wiki_name]
                        ELSE -1
             tag     == IF wiki_id >= 0
                        THEN IF last_bio = <<"B">> THEN <<"I">> ELSE bio
                        ELSE <<"O">>
         IN  TagPieces(Append(doc, Piece(Head(toks), tag, wiki_name, wiki_id, doc)),
                       Tail(toks), tag, tag, wiki_name)

\* one iteration of "for item in multinerd_dataset" (lines 46-106)
IntegerizeItem(st0, item) ==
    LET st1 == IF st0.current_split_name \in {"train", "valid", "test"}
                  /\ st0.current_split_name # item.split
               THEN [(IF st0.doc # <<>> /\ st0.doc[1] # <<>>
                      THEN AppendDoc(st0, st0.doc[1]) ELSE st0)
                         EXCEPT !.doc = << <<>> >>]
               ELSE st0
        st2 == IF item.split \in {"train", "valid", "test"}
               THEN [st1 EXCEPT !.split = item.split, !.current_split_name = item.split]
               ELSE st1
        separate == item.sent_nr > 0 /\ item.tok_nr = 0 /\ st2.last_tok # "."
        st3 == IF separate /\ st2.doc # <<>>
               THEN [st2 EXCEPT !.doc = <<Append(st2.doc[1],
                                          Piece(".", <<"O">>, None, -1, st2.doc[1]))>>]
               ELSE st2
        known == /\ item.wiki_name.kind # "None"
                 /\ ~(item.wiki_name.kind = "str" /\ item.wiki_name.keys = <<"--NME--">>)
        wiki_name == IF known THEN FirstPopular(item.wiki_name.keys) ELSE None
        bio == IF known /\ wiki_name = None THEN <<"O">> ELSE item.bio
    IN  IF separate /\ st2.doc = <<>> THEN [st2 EXCEPT !.raised = "AttributeError"]
        ELSE IF item.doc_start
        THEN [(IF st3.doc # <<>> THEN AppendDoc(st3, st3.doc[1]) ELSE st3)
                  EXCEPT !.doc = << <<>> >>]
        ELSE IF known /\ item.wiki_name.kind = "str"
        THEN [st3 EXCEPT !.raised = "AttributeError"]
        ELSE IF st3.doc = <<>> /\ Tokenize(ItemTok(item.tok)) # <<>>
        THEN [st3 EXCEPT !.raised = "AttributeError"]
        ELSE [st3 EXCEPT
                 !.doc = <<TagPieces(st3.doc[1], Tokenize(ItemTok(item.tok)), bio, None,
                                     wiki_name)>>,
                 !.last_tok = item.tok]

\* lines 108-109, after the last record
FinishDocuments(st) ==
    IF st.doc # <<>> /\ st.doc[1] # <<>> /\ st.split # "<None>"
    THEN AppendDoc(st, st.doc[1]) ELSE st

\* create_overlapping_chunks that starts the next chunk where the last one ended
RECURSIVE ChunksWithoutOverlap(_, _, _, _)
ChunksWithoutOverlap(a_list, n, overlap, i) ==
    IF i >= Len(a_list) THEN <<>>
    ELSE <<SubSeq(a_list, i + 1, Min(i + n, Len(a_list)))>>
         \o ChunksWithoutOverlap(a_list, n, overlap, i + n)

\* "for i in range(i, len(a_list), n - overlap): yield a_list[i:i + n]"
RECURSIVE ChunksFrom(_, _, _, _)
ChunksFrom(a_list, n, overlap, i) ==
    IF i >= Len(a_list) THEN <<>>
    ELSE <<SubSeq(a_list, i + 1, Min(i + n, Len(a_list)))>>
         \o ChunksFrom(a_list, n, overlap, i + (n - overlap))

\* list(create_overlapping_chunks(a_list, n, overlap)) for n > overlap
create_overlapping_chunks(a_list, n, overlap) == ChunksFrom(a_list, n, overlap, 0)

\* lines 119-123: the chunks of every document of a split, in one list
RECURSIVE Overlapped(_, _, _)
Overlapped(docs, n, overlap) ==
    IF docs = <<>> THEN <<>>
    ELSE create_overlapping_chunks(Head(docs), n, overlap)
         \o Overlapped(Tail(docs), n, overlap)

----------------------------------------------------------------------------
(* The two jobs in sequence: the benchmark file to records, the records to
   documents, the documents to chunks *)

MaxConllLines == 4

MaxChunkLength == 3

InitConll ==
    /\ pc = "conll"
    /\ conll_job = [merged_el |-> <<>>, aida |-> ConllStart, data |-> IntegerizerStart,
                    n |-> 0, overlap |-> 0, train_overlapped |-> <<>>,
                    valid_overlapped |-> <<>>, test_overlapped |-> <<>>]
    /\ entities = <<>>
    /\ all_candidates = <<>>
    /\ key_order = <<>>
    /\ mined = <<>>
    /\ scanned = <<>>
    /\ doc_splits = <<>>
    /\ out_files = <<>>
    /\ written = <<>>
    /\ rows = <<>>
    /\ corpus = <<>>
    /\ loader = <<>>
    /\ redirects_job = <<>>

\* the next item of merged_el in CreateAIDACONLL._run
ReadConllLine ==
    /\ pc = "conll"
    /\ Len(conll_job.merged_el) < MaxConllLines
    /\ \E line_items \in MergedItems :
          \E st \in {ConllLine(conll_job.aida, line_items)} :
             /\ conll_job' = [conll_job EXCEPT !.merged_el = Append(@, line_items),
                                               !.aida = st]
             /\ pc' = IF st.raised # "" THEN st.raised ELSE pc
    /\ UNCHANGED <<pipeline, loader, redirects_job>>

\* pickle.dump(multinerd_dataset, f) (lines 262-263), loaded again by
\* CreateIntegerizedCONLLTrainingData._run (lines 23-24)
DumpDataset ==
    /\ pc = "conll"
    /\ pc' = "integerize"
    /\ UNCHANGED <<pipeline, others>>

\* the next record of "for item in multinerd_dataset"
IntegerizeNext ==
    /\ pc = "integerize"
    /\ conll_job.data.read < Len(conll_job.aida.multinerd_dataset)
    /\ \E st \in {IntegerizeItem(conll_job.data,
                      conll_job.aida.multinerd_dataset[conll_job.data.read + 1])} :
          /\ conll_job' = [conll_job EXCEPT !.data = [st EXCEPT !.read = @ + 1]]
          /\ pc' = IF st.raised # "" THEN st.raised ELSE pc
    /\ UNCHANGED <<pipeline, loader, redirects_job>>

\* the records are through: the last document is stored and every split is cut
\* into chunks of the length and overlap of the options (lines 108-135)
ChunkDocuments ==
    /\ pc = "integerize"
    /\ conll_job.data.read = Len(conll_job.aida.multinerd_dataset)
    /\ \E n \in 1..MaxChunkLength : \E overlap \in 0..(n - 1) :
          \E st \in {FinishDocuments(conll_job.data)} :
             conll_job' = [conll_job EXCEPT
                 !.data = st, !.n = n, !.overlap = overlap,
                 !.train_overlapped = Overlapped(st.train, n, overlap),
                 !.valid_overlapped = Overlapped(st.valid, n, overlap),
                 !.test_overlapped = Overlapped(st.test, n, overlap)]
    /\ pc' = "chunked"
    /\ UNCHANGED <<pipeline, loader, redirects_job>>

NextConll == ReadConllLine \/ DumpDataset \/ IntegerizeNext \/ ChunkDocuments

SpecConll == InitConll /\ [][NextConll]_vars

----------------------------------------------------------------------------
\* the step consumes the next record of the dataset and does not raise
IsIntegerizeStep ==
    /\ pc = "integerize"
    /\ pc' = "integerize"
    /\ conll_job'.data.read = conll_job.data.read + 1

IntegerizedItem == conll_job.aida.multinerd_dataset[conll_job.data.read + 1]

\* the record before the consumed one is the record of a token of another
\* sentence
BeginsSentence ==
    /\ conll_job.data.read > 0
    /\ LET before == conll_job.aida.multinerd_dataset[conll_job.data.read] IN
       ~before.doc_start /\ before.sent_nr # IntegerizedItem.sent_nr

\* the pieces of the token of the record
ItemPieces == Tokenize(ItemTok(IntegerizedItem.tok))

(* C27: when the record of the first token of a sentence with sent_nr > 0 is
   consumed and the token before it was not '.', the step appends a separator
   '.' with tag O and entity id -1 to the document, and the pieces of the token
   after it. *)
C27_SeparatorBeforeSentence ==
    [][(/\ IsIntegerizeStep
        /\ ~IntegerizedItem.doc_start
        /\ IntegerizedItem.sent_nr > 0
        /\ BeginsSentence
        /\ conll_job.data.last_tok # ".") =>
           LET doc  == conll_job.data.doc[1]
               doc2 == conll_job'.data.doc[1]
           IN  /\ Len(doc2) = Len(doc) + 1 + Len(ItemPieces)
               /\ doc2[Len(doc) + 1].tok = "."
               /\ doc2[Len(doc) + 1].bio = <<"O">>
               /\ doc2[Len(doc) + 1].wiki_id = -1]_vars

----------------------------------------------------------------------------
\* the chunks of one document under the options of the run
ChunksOf(doc) == create_overlapping_chunks(doc, conll_job.n, conll_job.overlap)

\* the start of chunk j of a document, counting positions from 0
ChunkStart(j) == (j - 1) * (conll_job.n - conll_job.overlap)

AllDocuments ==
    Range(conll_job.data.train) \cup Range(conll_job.data.valid)
    \cup Range(conll_job.data.test)

AllChunks ==
    Range(conll_job.train_overlapped) \cup Range(conll_job.valid_overlapped)
    \cup Range(conll_job.test_overlapped)

(* C28: for n > overlap >= 0, create_overlapping_chunks(a_list, n, overlap)
   ends and yields the slices a_list[i:i + n] for i = 0, n - overlap,
   2 (n - overlap), ... below len(a_list): each has at most n elements and none
   is empty, every element of the document is in a chunk, and an empty
   document yields no chunk. *)
C28_ChunksCoverDocument ==
    pc = "chunked" =>
        /\ \A doc \in AllDocuments :
              LET chunks == ChunksOf(doc) IN
              /\ \A j \in 1..Len(chunks) :
                    /\ ChunkStart(j) < Len(doc)
                    /\ chunks[j] = SubSeq(doc, ChunkStart(j) + 1,
                                          Min(ChunkStart(j) + conll_job.n, Len(doc)))
                    /\ chunks[j] # <<>>
                    /\ Len(chunks[j]) <= conll_job.n
              /\ ChunkStart(Len(chunks) + 1) >= Len(doc)
              /\ \A p \in 1..Len(doc) :
                    \E j \in 1..Len(chunks) :
                        /\ ChunkStart(j) < p
                        /\ p <= ChunkStart(j) + Len(chunks[j])
              /\ doc = <<>> => chunks = <<>>
              /\ \A j \in 1..Len(chunks) : chunks[j] \in AllChunks
        /\ \A chunk \in AllChunks : chunk # <<>> /\ Len(chunk) <= conll_job.n

\* an empty document and a document of three pieces cut into three chunks of
\* at most two pieces that overlap by one
C28_Witness ==
    /\ pc = "chunked"
    /\ conll_job.n = 2
    /\ conll_job.overlap = 1
    /\ <<>> \in Range(conll_job.data.train)
    /\ \E doc \in Range(conll_job.data.train) : Len(doc) = 3
    /\ Len(conll_job.train_overlapped) = 3

----------------------------------------------------------------------------
\* the popular entities among the names of the record
PopularNames(item) ==
    IF item.wiki_name.kind = "Counter"
    THEN Range(item.wiki_name.keys) \cap DOMAIN popular_entity_to_id_dict
    ELSE {}

\* the pieces a step has appended to the document
AppendedPieces ==
    LET doc  == conll_job.data.doc[1]
        doc2 == conll_job'.data.doc[1]
    IN  SubSeq(doc2, Len(doc2) - Len(ItemPieces) + 1, Len(doc2))

(* C29: a step that consumes the record of a token appends one piece per
   sub-word of the token. If an entity of the token is in the popular-entity
   dictionary and the token is tagged B, the first piece is tagged B and the
   others I, all with the id of that entity; if the token is tagged I, all
   pieces are tagged I with that id; if no entity of the token is in the
   dictionary, every piece is tagged O with entity id -1. *)
C29_SubWordTags ==
    [][(IsIntegerizeStep /\ ~IntegerizedItem.doc_start) =>
           LET item   == IntegerizedItem
               pieces == AppendedPieces
           IN  /\ Len(ItemPieces) >= 1
               /\ Len(conll_job'.data.doc[1]) >= Len(conll_job.data.doc[1]) + Len(ItemPieces)
               /\ \A i \in 1..Len(pieces) :
                     /\ pieces[i].tok = ItemPieces[i]
                     /\ IF PopularNames(item) # {}
                        THEN /\ pieces[i].wiki_name \in PopularNames(item)
                             /\ pieces[i].wiki_id
                                    = popular_entity_to_id_dict[pieces[i].wiki_name]
                             /\ item.bio = <<"B">> =>
                                    pieces[i].bio = IF i = 1 THEN <<"B">> ELSE <<"I">>
                             /\ item.bio = <<"I">> => pieces[i].bio = <<"I">>
                        ELSE /\ pieces[i].bio = <<"O">>
                             /\ pieces[i].wiki_id = -1]_vars

\* a document with the three pieces of a B token and of an I token of a popular
\* entity, and the two pieces of a token of an entity that is not popular
C29_Witness ==
    /\ pc = "integerize"
    /\ conll_job.data.doc # <<>>
    /\ LET doc == conll_job.data.doc[1] IN
       /\ Len(doc) = 8
       /\ [i \in 1..8 |-> doc[i].bio]
              = <<(<<"B">>), (<<"I">>), (<<"I">>), (<<"I">>), (<<"I">>), (<<"I">>),
                  (<<"O">>), (<<"O">>)>>
       /\ \A i \in 1..6 : doc[i].wiki_id = 7
       /\ \A i \in 7..8 : doc[i].wiki_id = -1

====
